---- MODULE Spec2Model ----
(***************************************************************************)
(* One call session of the Twilio <-> ElevenLabs voice bridge.             *)
(*                                                                         *)
(* The repository holds several generations of the per-call WebSocket      *)
(* handler.  A behaviour of this model is one session served by one of     *)
(* them (variable handler, fixed in Init):                                 *)
(*   "OUT"     src/outbound-calls.js 775-1215  /outbound-media-stream      *)
(*   "OUT_OLD" src/outbound-calls.js 1443-1832 /outbound-media-stream      *)
(*   "P3"      src/unnamed/part_003 221-620    /outbound-media-stream      *)
(*   "IN"      src/inbound-calls.js 314-600    /media-stream               *)
(*                                                                         *)
(* Node runs every event handler to completion, so one action is one       *)
(* handler invocation.  The ws library is modelled by its behaviour:       *)
(* send() throws while the socket is CONNECTING, transmits while OPEN and  *)
(* silently drops the frame while CLOSING or CLOSED; close() moves a       *)
(* CONNECTING or OPEN socket to CLOSING.                                   *)
(*                                                                         *)
(* agentLog and telcoLog are history variables: every send() call the      *)
(* handlers make on an Agent socket (with the readyState the socket had at *)
(* the call) and every frame handed to the Telco socket.                   *)
(*                                                                         *)
(* Specifications:                                                         *)
(*   Spec          one session                                             *)
(*   SpecCall      the session and the /call-status callbacks of its call  *)
(*   SpecOverflow  a session receiving frames while its peer is not ready  *)
(*   SpecCache     the signed-URL cache of ElevenLabsConnectionManager     *)
(*   SpecPool      the cache while CallPatternTracker adjusts its size      *)
(*   SpecShared    sessions of the handler of src/unnamed/part_002, which   *)
(*                 takes its Agent socket from getConnection()             *)
(*   SpecPing, SpecTool, SpecUnparseable                                   *)
(*                 one session of the current outbound or inbound handler  *)
(*                 that also receives pings, tool calls, non-JSON frames   *)
(*   SpecInitFrame two concurrent outbound sessions and the data of their   *)
(*                 init frames                                             *)
(*   SpecCalendar  one session of the older outbound handler whose tool    *)
(*                 calls go to the cal.com handleToolExecution             *)
(*   SpecIdle      SpecShared with the manager's idle-cleanup timer        *)
(*   SpecAdjust    the cache under adjustPoolIfNeeded at the thresholds    *)
(*   SpecTracker   CallPatternTracker: call history, hourly buckets and    *)
(*                 the forecast                                            *)
(***************************************************************************)
EXTENDS Integers, Sequences, FiniteSets, TLC

\* ---- bounds of the model ------------------------------------------------
MaxStart == 2
MaxMedia == 2
MaxAudio == 2
MaxInterrupt == 1
MaxStop == 1
MaxEvents == 4
MaxStatus == 1
MaxOverflowFrames == 202
MaxTicks == 3
MaxConnects == 2
MaxAdjusts == 2
MaxPoolSessions == 3
MaxPing == 1
MaxTool == 1
MaxUnparseable == 1
MaxCallStarts == 2

\* ---- program constants --------------------------------------------------
TwilioAudioBufferCap == 200
UrlTtlMs == 300000            \* 5 * 60 * 1000
UrlCacheSize == 3
PoolAdjustIntervalMs == 600000    \* 10 * 60 * 1000

Null == "null"
Handlers == {"OUT", "OUT_OLD", "P3", "IN"}
StreamSids == {"MZ1", "MZ2"}

VARIABLES
  handler,                    \* which generation of the handler serves the session
  phase,                      \* "acquiring": /media-stream is awaiting getSignedUrl, no Telco handler registered yet
  telco,                      \* readyState of the Telco WebSocket
  telcoCloseCalls,            \* sequence of close codes the server passed to the Telco socket's close()
  socks,                      \* the Agent WebSockets created by the session: [rs, closeCalls]
  elevenLabsWs,               \* index in socks of the socket the variable refers to, 0 = null
  pendingSetups,              \* setupElevenLabs() calls still awaiting getSignedUrl()
  streamSid,
  callSid,
  decodedCustomParameters,    \* TRUE once the object has been built
  isElevenLabsWsOpen,
  twilioStartEventProcessed,
  initialConfigSent,
  streamSidEstablished,
  firstTwilioMessageProcessed,
  twilioAudioBuffer,          \* Telco -> Agent chunks waiting for the Agent socket
  pendingAudioBuffer,         \* Agent -> Telco chunks waiting for streamSid (outbound handler)
  elevenLabsAudioBuffer,      \* Agent -> Telco messages waiting for streamSid (inbound handler)
  agentLog,                   \* history: send() calls on Agent sockets
  telcoLog,                   \* history: frames sent to the Telco socket
  starts, medias, audios, intrs, stops,  \* history: number of events received so far
  audiosBuffered,             \* history: number of Agent audio frames that were buffered
  finalizeLog,                \* history: twilioClient.calls(sid).update({status: "completed"}) invocations
  amdResults,                 \* the module-level amdResults object: call ids that hold an AnsweredBy value
  isVoicemail,                \* value the last start handler computed for its local isVoicemail
  statusLog,                  \* history: AnsweredBy of the /call-status callbacks received for the call
  cachedSignedUrls,           \* ElevenLabsConnectionManager: sequence of [url, timestamp]
  urlCacheSize,
  now,                        \* Date.now(), in ms since the process started
  ticks,                      \* history: number of clock advances
  initIndex,                  \* loop variable i of initializeUrlCache while it awaits getSignedUrl()
  lastPoolAdjustment,         \* CallPatternTracker.lastPoolAdjustment
  lastPrediction,             \* history: the prediction adjustPoolIfNeeded last acted on, -1 = none
  adjusts,                    \* history: number of pool adjustments made
  replenishing,               \* replenishUrlCache() calls awaiting getSignedUrl()
  urlsFetched,                \* history: number of signed URLs received for the cache
  handedOut,                  \* history: [url, timestamp, at] for every URL getCachedUrl returned
  acquiring,                  \* createConnection() calls awaiting their own getSignedUrl()
  connectLog,                 \* history: how each createConnection() call got its URL, or failed
  activeConnection,           \* pooled manager: id of the socket it keeps, 0 = null
  connectionPromise,          \* pooled manager: id of the socket whose creation it points at, 0 = null
  poolWs,                     \* pooled manager: readyState of every socket createConnection() made
  sessionWs,                  \* per session of the pooled handler: its elevenLabsWs, 0 = null
  sessionPhase,               \* per session: where its setupElevenLabs() stands
  awaiting,                   \* per session: id of the socket whose promise it awaits, 0 = none
  sessionStopped,             \* per session: its Telco stop event has been handled
  forwarded,                  \* history: <<socket, session>> for every Agent frame a session's handler received
  pingLog,                    \* history: [sock, id, rs] for every ping frame an Agent socket delivered
  toolLog,                    \* history: [sock, id, tool, rs] for every client_tool_call frame delivered
  unparseable,                \* history: [peer, medias] for every frame received that is not JSON
  sessionParameters,          \* per concurrent session: its decodedCustomParameters, <<>> for null
  sessionConnecting,          \* per concurrent session: Agent sockets created and not yet open
  sessionConfigSent,          \* per concurrent session: its initialConfigSent
  startLog,                   \* history, per concurrent session: customParameters of its start events
  initFrames,                 \* history, per concurrent session: dynamic_variables of the init frames it sent
  toolRuns,                   \* earlier handler: [sock, id, tool, parameters, key, rs, ws, state] for every client_tool_call frame delivered
  calRequests,                \* history: [run, method, url] for every request sent to the calendar backend
  lastActivity,               \* pooled manager: this.lastActivity, the time of the last getConnection or releaseConnection
  callHistory,                \* CallPatternTracker.callHistory: the times of the calls recorded, oldest first
  hourlyPatterns              \* CallPatternTracker.hourlyPatterns: the Map from hour of day to a count

vars == <<handler, phase, telco, telcoCloseCalls, socks, elevenLabsWs, pendingSetups,
          streamSid, callSid, decodedCustomParameters, isElevenLabsWsOpen,
          twilioStartEventProcessed, initialConfigSent, streamSidEstablished,
          firstTwilioMessageProcessed, twilioAudioBuffer, pendingAudioBuffer,
          elevenLabsAudioBuffer, agentLog, telcoLog, starts, medias, audios, intrs, stops,
          audiosBuffered, finalizeLog, amdResults, isVoicemail, statusLog,
          cachedSignedUrls, urlCacheSize, now, ticks, initIndex, lastPoolAdjustment,
          lastPrediction, adjusts,
          replenishing, urlsFetched, handedOut, acquiring, connectLog,
          activeConnection, connectionPromise, poolWs, sessionWs, sessionPhase, awaiting,
          sessionStopped, forwarded, pingLog, toolLog, unparseable,
          sessionParameters, sessionConnecting, sessionConfigSent, startLog, initFrames,
          toolRuns, calRequests,
          lastActivity,
          callHistory, hourlyPatterns>>

\* concurrent sessions of the outbound handler
CallSessions == {"A", "B"}

\* the call sessions served by the handler that takes its socket from the manager
PoolSessions == 1..MaxPoolSessions

callVars == <<finalizeLog, amdResults, isVoicemail, statusLog>>
sharedVars == <<activeConnection, connectionPromise, poolWs, sessionWs, sessionPhase, awaiting,
                sessionStopped, forwarded>>
frameVars == <<pingLog, toolLog, unparseable>>
initVars == <<sessionParameters, sessionConnecting, sessionConfigSent, startLog, initFrames>>
calendarVars == <<toolRuns, calRequests>>
idleVars == <<lastActivity>>
trackerVars == <<callHistory, hourlyPatterns>>
serviceVars == <<sharedVars, frameVars, initVars, calendarVars, idleVars, trackerVars>>
connectVars == <<acquiring, connectLog>>
cacheVars == <<cachedSignedUrls, urlCacheSize, now, ticks, initIndex, lastPoolAdjustment,
               lastPrediction, adjusts,
               replenishing, urlsFetched, handedOut, connectVars>>
sessionVars == <<streamSid, callSid, decodedCustomParameters, isElevenLabsWsOpen,
                 twilioStartEventProcessed, initialConfigSent, streamSidEstablished,
                 firstTwilioMessageProcessed>>
bufferVars == <<twilioAudioBuffer, pendingAudioBuffer, elevenLabsAudioBuffer>>
counterVars == <<starts, medias, audios, intrs, stops, audiosBuffered>>

\* number of Telco and Agent messages the session has received so far
Events == starts + medias + audios + intrs + stops + Len(statusLog)
            + Len(pingLog) + Len(toolLog) + Len(unparseable) + Len(toolRuns)
MoreEvents == Events < MaxEvents

\* ---- the ws library -----------------------------------------------------
\* readyState of the socket a variable refers to ("NONE" for null)
ReadyState(sk, i) == IF i = 0 THEN "NONE" ELSE sk[i].rs

\* send() throws on a null reference and on a CONNECTING socket
SendThrows(sk, i) == ReadyState(sk, i) \in {"NONE", "CONNECTING"}

\* one send() call on Agent socket i, recorded with the readyState at the call
WsSend(log, sk, i, kind, id) ==
  Append(log, [sock |-> i, kind |-> kind, id |-> id, rs |-> ReadyState(sk, i)])

RECURSIVE WsSendAll(_, _, _, _)
\* forEach(chunk => { try { send(chunk) } catch {} })
WsSendAll(log, sk, i, chunks) ==
  IF chunks = <<>> THEN log
  ELSE WsSendAll(WsSend(log, sk, i, "chunk", Head(chunks)), sk, i, Tail(chunks))

\* close() on Agent socket i
WsClose(sk, i) ==
  [sk EXCEPT ![i] = [rs |-> IF @.rs \in {"CONNECTING", "OPEN"} THEN "CLOSING" ELSE @.rs,
                     closeCalls |-> @.closeCalls + 1]]

\* "message" events are emitted while the socket is OPEN and, after a local close(),
\* until the closing handshake completes
Receiving(sk, i) == sk[i].rs \in {"OPEN", "CLOSING"}

SetRs(sk, i, r) == [sk EXCEPT ![i].rs = r]

NewSocket == [rs |-> "CONNECTING", closeCalls |-> 0]

\* frames for the Telco socket
MediaFrame(sid, payload) == [event |-> "media", streamSid |-> sid, payload |-> payload]
ClearFrame(sid) == [event |-> "clear", streamSid |-> sid, payload |-> 0]

RECURSIVE MediaFrames(_, _)
MediaFrames(sid, chunks) ==
  IF chunks = <<>> THEN <<>>
  ELSE <<MediaFrame(sid, Head(chunks))>> \o MediaFrames(sid, Tail(chunks))

\* ---- call-level state shared by all sessions of the process --------------
CallSids == {"CA1"}
AnsweredByValues == {"machine_start", "machine_end_beep", "human"}

\* start handler: if (callSid && amdResults[callSid]) { isVoicemail = answeredBy is one of ... }
AmdIsVoicemail(results, cs) ==
  /\ cs # Null
  /\ cs \in DOMAIN results
  /\ results[cs] \in {"machine_start", "machine_end_beep", "fax"}

\* start handler: delete amdResults[callSid]
AmdDelete(results, cs) == [c \in DOMAIN results \ {cs} |-> results[c]]

\* await twilioClient.calls(cs).update({ status: "completed" }), by the stop branch or by
\* the status callback; the call is made whether or not the request then succeeds
Finalize(log, cs, by) == Append(log, [callSid |-> cs, by |-> by])

\* stop branch: if (callSid) { ... update ... } else warn
StopFinalize(log, cs) == IF cs # Null THEN Finalize(log, cs, "stop") ELSE log

\* fastify.post("/call-status"): a machine classification ends the call at once, nothing
\* is stored in amdResults; every other value is only logged
CallStatusHandler(machineResponses, cs, answeredBy) ==
  /\ Len(statusLog) < MaxStatus /\ MoreEvents
  /\ statusLog' = Append(statusLog, answeredBy)
  /\ finalizeLog' = IF answeredBy \in machineResponses
                      THEN Finalize(finalizeLog, cs, "status") ELSE finalizeLog
  /\ UNCHANGED <<amdResults, isVoicemail, cacheVars, serviceVars, handler, phase, telco, telcoCloseCalls,
                 socks, elevenLabsWs, pendingSetups, sessionVars, bufferVars, agentLog,
                 telcoLog, starts, medias, audios, intrs, stops, audiosBuffered>>

\* ---- initial state ------------------------------------------------------
Init ==
  /\ handler \in Handlers
  /\ phase = IF handler = "IN" THEN "acquiring" ELSE "bound"
  /\ telco = "OPEN"
  /\ telcoCloseCalls = <<>>
  /\ socks = <<>>
  /\ elevenLabsWs = 0
  /\ pendingSetups = IF handler = "OUT_OLD" THEN 1 ELSE 0
  /\ streamSid = Null
  /\ callSid = Null
  /\ decodedCustomParameters = FALSE
  /\ isElevenLabsWsOpen = FALSE
  /\ twilioStartEventProcessed = FALSE
  /\ initialConfigSent = FALSE
  /\ streamSidEstablished = FALSE
  /\ firstTwilioMessageProcessed = FALSE
  /\ twilioAudioBuffer = <<>>
  /\ pendingAudioBuffer = <<>>
  /\ elevenLabsAudioBuffer = <<>>
  /\ agentLog = <<>>
  /\ telcoLog = <<>>
  /\ starts = 0 /\ medias = 0 /\ audios = 0 /\ intrs = 0 /\ stops = 0
  /\ audiosBuffered = 0
  /\ finalizeLog = <<>>
  /\ amdResults = [c \in {} |-> "human"]
  /\ isVoicemail = FALSE
  /\ statusLog = <<>>
  /\ cachedSignedUrls = <<>>
  /\ urlCacheSize = UrlCacheSize
  /\ now = 0
  /\ ticks = 0
  /\ initIndex = 0
  /\ lastPoolAdjustment = 0
  /\ lastPrediction = -1
  /\ adjusts = 0
  /\ replenishing = 0
  /\ urlsFetched = 0
  /\ handedOut = <<>>
  /\ acquiring = 0
  /\ connectLog = <<>>
  /\ activeConnection = 0
  /\ connectionPromise = 0
  /\ poolWs = <<>>
  /\ sessionWs = [s \in PoolSessions |-> 0]
  /\ sessionPhase = [s \in PoolSessions |-> "idle"]
  /\ awaiting = [s \in PoolSessions |-> 0]
  /\ sessionStopped = [s \in PoolSessions |-> FALSE]
  /\ forwarded = {}
  /\ pingLog = <<>>
  /\ toolLog = <<>>
  /\ unparseable = <<>>
  /\ sessionParameters = [s \in CallSessions |-> <<>>]
  /\ sessionConnecting = [s \in CallSessions |-> 0]
  /\ sessionConfigSent = [s \in CallSessions |-> FALSE]
  /\ startLog = [s \in CallSessions |-> <<>>]
  /\ initFrames = [s \in CallSessions |-> <<>>]
  /\ toolRuns = <<>>
  /\ calRequests = <<>>
  /\ lastActivity = 0
  /\ callHistory = <<>>
  /\ hourlyPatterns = <<>>

\* =========================================================================
\* "OUT": src/outbound-calls.js 775-1215
\* =========================================================================

\* variant of the guard that forgets the initialConfigSent flag
Out_ShouldSendConfig_IgnoringSentFlag == callSid # Null /\ decodedCustomParameters

\* guard of the immediate config send in elevenLabsWs.on("open")
Out_ShouldSendConfig == callSid # Null /\ ~initialConfigSent /\ decodedCustomParameters

\* guard of the Agent -> Telco forwarding
Out_StreamSidKnown == streamSid # Null

\* ws.on("message") case "start"
Out_Start(sid) ==
  /\ handler = "OUT" /\ telco = "OPEN" /\ starts < MaxStart /\ MoreEvents
  /\ starts' = starts + 1
  /\ streamSid' = sid
  /\ callSid' = "CA1"
  /\ decodedCustomParameters' = TRUE
  /\ pendingSetups' = pendingSetups + 1          \* setupElevenLabs(callSid), not awaited
  /\ twilioStartEventProcessed' = TRUE
  /\ telcoLog' = telcoLog \o MediaFrames(sid, pendingAudioBuffer)
  /\ pendingAudioBuffer' = <<>>
  /\ isVoicemail' = AmdIsVoicemail(amdResults, "CA1")
  /\ amdResults' = AmdDelete(amdResults, "CA1")
  /\ UNCHANGED <<finalizeLog, statusLog, cacheVars, serviceVars, handler, phase, telco, telcoCloseCalls, socks, elevenLabsWs,
                 isElevenLabsWsOpen, initialConfigSent, streamSidEstablished,
                 firstTwilioMessageProcessed, twilioAudioBuffer, elevenLabsAudioBuffer,
                 agentLog, medias, audios, intrs, stops, audiosBuffered>>

\* setupElevenLabs: getSignedUrl() resolved, the fresh socket is created
Out_SetupResolve ==
  /\ handler = "OUT" /\ pendingSetups > 0
  /\ pendingSetups' = pendingSetups - 1
  /\ socks' = Append(socks, NewSocket)
  /\ elevenLabsWs' = Len(socks) + 1
  /\ UNCHANGED <<callVars, cacheVars, serviceVars, handler, phase, telco, telcoCloseCalls, sessionVars, bufferVars,
                 agentLog, telcoLog, counterVars>>

\* setupElevenLabs: getSignedUrl() rejected; the error is rethrown to nobody
Out_SetupFail ==
  /\ handler = "OUT" /\ pendingSetups > 0
  /\ pendingSetups' = pendingSetups - 1
  /\ UNCHANGED <<callVars, cacheVars, serviceVars, handler, phase, telco, telcoCloseCalls, socks, elevenLabsWs, sessionVars,
                 bufferVars, agentLog, telcoLog, counterVars>>

\* the mutant of Out_ElOpen: initialConfigSent is set outside the try block, whether
\* or not send() threw
Out_ElOpen_MarkingSentOnFailure(s) ==
  /\ handler = "OUT" /\ s \in 1..Len(socks) /\ socks[s].rs = "CONNECTING"
  /\ LET sk == SetRs(socks, s, "OPEN")
         send == Out_ShouldSendConfig
         log1 == IF send THEN WsSend(agentLog, sk, elevenLabsWs, "init", 0) ELSE agentLog
     IN /\ socks' = sk
        /\ isElevenLabsWsOpen' = TRUE
        /\ initialConfigSent' = IF send THEN TRUE ELSE initialConfigSent
        /\ agentLog' = WsSendAll(log1, sk, elevenLabsWs, twilioAudioBuffer)
        /\ twilioAudioBuffer' = <<>>
  /\ UNCHANGED <<callVars, cacheVars, serviceVars, handler, phase, telco, telcoCloseCalls, elevenLabsWs, pendingSetups,
                 streamSid, callSid, decodedCustomParameters, twilioStartEventProcessed,
                 streamSidEstablished, firstTwilioMessageProcessed, pendingAudioBuffer,
                 elevenLabsAudioBuffer, telcoLog, counterVars>>

\* elevenLabsWs.on("open") of socket s
Out_ElOpen(s) ==
  /\ handler = "OUT" /\ s \in 1..Len(socks) /\ socks[s].rs = "CONNECTING"
  /\ LET sk == SetRs(socks, s, "OPEN")
         send == Out_ShouldSendConfig
         log1 == IF send THEN WsSend(agentLog, sk, elevenLabsWs, "init", 0) ELSE agentLog
     IN /\ socks' = sk
        /\ isElevenLabsWsOpen' = TRUE
        /\ initialConfigSent' = IF send /\ ~SendThrows(sk, elevenLabsWs) THEN TRUE
                                ELSE initialConfigSent
        /\ agentLog' = WsSendAll(log1, sk, elevenLabsWs, twilioAudioBuffer)
        /\ twilioAudioBuffer' = <<>>
  /\ UNCHANGED <<callVars, cacheVars, serviceVars, handler, phase, telco, telcoCloseCalls, elevenLabsWs, pendingSetups,
                 streamSid, callSid, decodedCustomParameters, twilioStartEventProcessed,
                 streamSidEstablished, firstTwilioMessageProcessed, pendingAudioBuffer,
                 elevenLabsAudioBuffer, telcoLog, counterVars>>

\* elevenLabsWs.on("message") case "audio" / "audio_event" on socket s
Out_ElAudio(s) ==
  /\ handler = "OUT" /\ s \in 1..Len(socks) /\ Receiving(socks, s)
  /\ audios < MaxAudio /\ MoreEvents
  /\ audios' = audios + 1
  /\ audiosBuffered' = IF Out_StreamSidKnown THEN audiosBuffered ELSE audiosBuffered + 1
  /\ IF Out_StreamSidKnown
       THEN /\ telcoLog' = Append(telcoLog, MediaFrame(streamSid, audios + 1))
            /\ UNCHANGED pendingAudioBuffer
       ELSE /\ pendingAudioBuffer' = Append(pendingAudioBuffer, audios + 1)
            /\ UNCHANGED telcoLog
  /\ UNCHANGED <<callVars, cacheVars, serviceVars, handler, phase, telco, telcoCloseCalls, socks, elevenLabsWs, pendingSetups,
                 sessionVars, twilioAudioBuffer, elevenLabsAudioBuffer, agentLog,
                 starts, medias, intrs, stops>>

\* elevenLabsWs.on("message") case "interruption" on socket s
Out_ElInterruption(s) ==
  /\ handler = "OUT" /\ s \in 1..Len(socks) /\ Receiving(socks, s)
  /\ intrs < MaxInterrupt /\ MoreEvents
  /\ intrs' = intrs + 1
  /\ telcoLog' = IF Out_StreamSidKnown THEN Append(telcoLog, ClearFrame(streamSid)) ELSE telcoLog
  /\ UNCHANGED <<callVars, cacheVars, serviceVars, handler, phase, telco, telcoCloseCalls, socks, elevenLabsWs, pendingSetups,
                 sessionVars, bufferVars, agentLog, starts, medias, audios, stops, audiosBuffered>>

\* elevenLabsWs.on("close") of socket s
Out_ElClose(s) ==
  /\ handler = "OUT" /\ s \in 1..Len(socks) /\ socks[s].rs # "CLOSED"
  /\ socks' = SetRs(socks, s, "CLOSED")
  /\ isElevenLabsWsOpen' = FALSE
  /\ UNCHANGED <<callVars, cacheVars, serviceVars, handler, phase, telco, telcoCloseCalls, elevenLabsWs, pendingSetups,
                 streamSid, callSid, decodedCustomParameters, twilioStartEventProcessed,
                 initialConfigSent, streamSidEstablished, firstTwilioMessageProcessed,
                 bufferVars, agentLog, telcoLog, counterVars>>

\* elevenLabsWs.on("error") of socket s; ws closes the socket after the event
Out_ElError(s) ==
  /\ handler = "OUT" /\ s \in 1..Len(socks) /\ socks[s].rs \in {"CONNECTING", "OPEN"}
  /\ socks' = SetRs(socks, s, "CLOSING")
  /\ isElevenLabsWsOpen' = FALSE
  /\ UNCHANGED <<callVars, cacheVars, serviceVars, handler, phase, telco, telcoCloseCalls, elevenLabsWs, pendingSetups,
                 streamSid, callSid, decodedCustomParameters, twilioStartEventProcessed,
                 initialConfigSent, streamSidEstablished, firstTwilioMessageProcessed,
                 bufferVars, agentLog, telcoLog, counterVars>>

\* ws.on("message") case "media"
Out_MediaHandler ==
  /\ handler = "OUT" /\ telco = "OPEN"
  /\ medias' = medias + 1
  /\ IF ReadyState(socks, elevenLabsWs) = "OPEN"
       THEN /\ agentLog' = WsSend(agentLog, socks, elevenLabsWs, "chunk", medias + 1)
            /\ UNCHANGED twilioAudioBuffer
       ELSE /\ twilioAudioBuffer' = IF Len(twilioAudioBuffer) < TwilioAudioBufferCap
                                      THEN Append(twilioAudioBuffer, medias + 1)
                                      ELSE twilioAudioBuffer
            /\ UNCHANGED agentLog
  /\ UNCHANGED <<callVars, cacheVars, serviceVars, handler, phase, telco, telcoCloseCalls, socks, elevenLabsWs, pendingSetups,
                 sessionVars, pendingAudioBuffer, elevenLabsAudioBuffer, telcoLog,
                 starts, audios, intrs, stops, audiosBuffered>>

Out_Media == medias < MaxMedia /\ MoreEvents /\ Out_MediaHandler

\* ws.on("message") case "stop"
Out_Stop ==
  /\ handler = "OUT" /\ telco = "OPEN" /\ stops < MaxStop /\ MoreEvents
  /\ stops' = stops + 1
  /\ socks' = IF ReadyState(socks, elevenLabsWs) = "OPEN" THEN WsClose(socks, elevenLabsWs)
              ELSE socks
  /\ finalizeLog' = StopFinalize(finalizeLog, callSid)
  /\ UNCHANGED <<amdResults, isVoicemail, statusLog, cacheVars, serviceVars, handler, phase, telco, telcoCloseCalls, elevenLabsWs, pendingSetups,
                 sessionVars, bufferVars, agentLog, telcoLog, starts, medias, audios, intrs, audiosBuffered>>

\* ws.on("close")
Out_Close ==
  /\ handler = "OUT" /\ telco # "CLOSED"
  /\ telco' = "CLOSED"
  /\ socks' = IF ReadyState(socks, elevenLabsWs) = "OPEN" THEN WsClose(socks, elevenLabsWs)
              ELSE socks
  /\ isElevenLabsWsOpen' = FALSE
  /\ UNCHANGED <<callVars, cacheVars, serviceVars, handler, phase, telcoCloseCalls, elevenLabsWs, pendingSetups,
                 streamSid, callSid, decodedCustomParameters, twilioStartEventProcessed,
                 initialConfigSent, streamSidEstablished, firstTwilioMessageProcessed,
                 bufferVars, agentLog, telcoLog, counterVars>>

\* POST /call-status
Out_MachineResponses ==
  {"machine_start", "machine_end_beep", "machine_end_silence", "machine_end_other", "fax"}

Out_CallStatus(CallSid, AnsweredBy) ==
  /\ handler = "OUT"
  /\ CallStatusHandler(Out_MachineResponses, CallSid, AnsweredBy)

\* =========================================================================
\* "OUT_OLD": src/outbound-calls.js 1443-1832
\* =========================================================================

\* variant of the guard that forwards whether or not streamSid is set
Old_StreamSidKnown_Always == TRUE

\* guard of the Agent -> Telco forwarding
Old_StreamSidKnown == streamSid # Null

\* setupElevenLabs (called when Twilio connects): getSignedUrl() resolved
Old_SetupResolve ==
  /\ handler = "OUT_OLD" /\ pendingSetups > 0
  /\ pendingSetups' = pendingSetups - 1
  /\ socks' = Append(socks, NewSocket)
  /\ elevenLabsWs' = Len(socks) + 1
  /\ UNCHANGED <<callVars, cacheVars, serviceVars, handler, phase, telco, telcoCloseCalls, sessionVars, bufferVars,
                 agentLog, telcoLog, counterVars>>

\* setupElevenLabs: getSignedUrl() rejected, the catch only logs
Old_SetupFail ==
  /\ handler = "OUT_OLD" /\ pendingSetups > 0
  /\ pendingSetups' = pendingSetups - 1
  /\ UNCHANGED <<callVars, cacheVars, serviceVars, handler, phase, telco, telcoCloseCalls, socks, elevenLabsWs, sessionVars,
                 bufferVars, agentLog, telcoLog, counterVars>>

\* elevenLabsWs.on("open"): buffered audio first, then the explicit init message
Old_ElOpen(s) ==
  /\ handler = "OUT_OLD" /\ s \in 1..Len(socks) /\ socks[s].rs = "CONNECTING"
  /\ LET sk == SetRs(socks, s, "OPEN")
         log1 == WsSendAll(agentLog, sk, elevenLabsWs, twilioAudioBuffer)
     IN /\ socks' = sk
        /\ isElevenLabsWsOpen' = TRUE
        /\ twilioAudioBuffer' = <<>>
        /\ agentLog' = WsSend(log1, sk, elevenLabsWs, "init", 0)
  /\ UNCHANGED <<callVars, cacheVars, serviceVars, handler, phase, telco, telcoCloseCalls, elevenLabsWs, pendingSetups,
                 streamSid, callSid, decodedCustomParameters, twilioStartEventProcessed,
                 initialConfigSent, streamSidEstablished, firstTwilioMessageProcessed,
                 pendingAudioBuffer, elevenLabsAudioBuffer, telcoLog, counterVars>>

\* elevenLabsWs.on("message") case "audio": forwarded, or dropped without streamSid
Old_ElAudio(s) ==
  /\ handler = "OUT_OLD" /\ s \in 1..Len(socks) /\ Receiving(socks, s)
  /\ audios < MaxAudio /\ MoreEvents
  /\ audios' = audios + 1
  /\ telcoLog' = IF Old_StreamSidKnown THEN Append(telcoLog, MediaFrame(streamSid, audios + 1))
                 ELSE telcoLog
  /\ UNCHANGED <<callVars, cacheVars, serviceVars, handler, phase, telco, telcoCloseCalls, socks, elevenLabsWs, pendingSetups,
                 sessionVars, bufferVars, agentLog, starts, medias, intrs, stops, audiosBuffered>>

\* elevenLabsWs.on("message") case "interruption"
Old_ElInterruption(s) ==
  /\ handler = "OUT_OLD" /\ s \in 1..Len(socks) /\ Receiving(socks, s)
  /\ intrs < MaxInterrupt /\ MoreEvents
  /\ intrs' = intrs + 1
  /\ telcoLog' = IF Old_StreamSidKnown THEN Append(telcoLog, ClearFrame(streamSid)) ELSE telcoLog
  /\ UNCHANGED <<callVars, cacheVars, serviceVars, handler, phase, telco, telcoCloseCalls, socks, elevenLabsWs, pendingSetups,
                 sessionVars, bufferVars, agentLog, starts, medias, audios, stops, audiosBuffered>>

\* elevenLabsWs.on("close")
Old_ElClose(s) ==
  /\ handler = "OUT_OLD" /\ s \in 1..Len(socks) /\ socks[s].rs # "CLOSED"
  /\ socks' = SetRs(socks, s, "CLOSED")
  /\ isElevenLabsWsOpen' = FALSE
  /\ UNCHANGED <<callVars, cacheVars, serviceVars, handler, phase, telco, telcoCloseCalls, elevenLabsWs, pendingSetups,
                 streamSid, callSid, decodedCustomParameters, twilioStartEventProcessed,
                 initialConfigSent, streamSidEstablished, firstTwilioMessageProcessed,
                 bufferVars, agentLog, telcoLog, counterVars>>

\* elevenLabsWs.on("error"): logged only; ws closes the socket after the event
Old_ElError(s) ==
  /\ handler = "OUT_OLD" /\ s \in 1..Len(socks) /\ socks[s].rs \in {"CONNECTING", "OPEN"}
  /\ socks' = SetRs(socks, s, "CLOSING")
  /\ UNCHANGED <<callVars, cacheVars, serviceVars, handler, phase, telco, telcoCloseCalls, elevenLabsWs, pendingSetups,
                 sessionVars, bufferVars, agentLog, telcoLog, counterVars>>

\* ws.on("message") case "start"
Old_Start(sid) ==
  /\ handler = "OUT_OLD" /\ telco = "OPEN" /\ starts < MaxStart /\ MoreEvents
  /\ starts' = starts + 1
  /\ streamSid' = sid
  /\ callSid' = "CA1"
  /\ isVoicemail' = AmdIsVoicemail(amdResults, "CA1")
  /\ amdResults' = AmdDelete(amdResults, "CA1")
  /\ UNCHANGED <<finalizeLog, statusLog, cacheVars, serviceVars, handler, phase, telco, telcoCloseCalls, socks, elevenLabsWs, pendingSetups,
                 decodedCustomParameters, isElevenLabsWsOpen, twilioStartEventProcessed,
                 initialConfigSent, streamSidEstablished, firstTwilioMessageProcessed,
                 bufferVars, agentLog, telcoLog, medias, audios, intrs, stops, audiosBuffered>>

\* ws.on("message") case "media": unbounded buffer while the Agent socket is not open
Old_MediaHandler ==
  /\ handler = "OUT_OLD" /\ telco = "OPEN"
  /\ medias' = medias + 1
  /\ IF ReadyState(socks, elevenLabsWs) = "OPEN"
       THEN /\ agentLog' = WsSend(agentLog, socks, elevenLabsWs, "chunk", medias + 1)
            /\ UNCHANGED twilioAudioBuffer
       ELSE /\ twilioAudioBuffer' = Append(twilioAudioBuffer, medias + 1)
            /\ UNCHANGED agentLog
  /\ UNCHANGED <<callVars, cacheVars, serviceVars, handler, phase, telco, telcoCloseCalls, socks, elevenLabsWs, pendingSetups,
                 sessionVars, pendingAudioBuffer, elevenLabsAudioBuffer, telcoLog,
                 starts, audios, intrs, stops, audiosBuffered>>

Old_Media == medias < MaxMedia /\ MoreEvents /\ Old_MediaHandler

\* ws.on("message") case "stop"
Old_Stop ==
  /\ handler = "OUT_OLD" /\ telco = "OPEN" /\ stops < MaxStop /\ MoreEvents
  /\ stops' = stops + 1
  /\ socks' = IF ReadyState(socks, elevenLabsWs) = "OPEN" THEN WsClose(socks, elevenLabsWs)
              ELSE socks
  /\ finalizeLog' = StopFinalize(finalizeLog, callSid)
  /\ UNCHANGED <<amdResults, isVoicemail, statusLog, cacheVars, serviceVars, handler, phase, telco, telcoCloseCalls, elevenLabsWs, pendingSetups,
                 sessionVars, bufferVars, agentLog, telcoLog, starts, medias, audios, intrs, audiosBuffered>>

\* ws.on("close")
Old_Close ==
  /\ handler = "OUT_OLD" /\ telco # "CLOSED"
  /\ telco' = "CLOSED"
  /\ socks' = IF ReadyState(socks, elevenLabsWs) = "OPEN" THEN WsClose(socks, elevenLabsWs)
              ELSE socks
  /\ isElevenLabsWsOpen' = FALSE
  /\ UNCHANGED <<callVars, cacheVars, serviceVars, handler, phase, telcoCloseCalls, elevenLabsWs, pendingSetups,
                 streamSid, callSid, decodedCustomParameters, twilioStartEventProcessed,
                 initialConfigSent, streamSidEstablished, firstTwilioMessageProcessed,
                 bufferVars, agentLog, telcoLog, counterVars>>

\* POST /call-status
Old_MachineResponses == {"machine_start", "fax"}

Old_CallStatus(CallSid, AnsweredBy) ==
  /\ handler = "OUT_OLD"
  /\ CallStatusHandler(Old_MachineResponses, CallSid, AnsweredBy)

\* =========================================================================
\* "P3": src/unnamed/part_003 221-620
\* =========================================================================

\* the condition of trySendInitialConfig
P3_ConfigConditionsMet(open, started, sent, cs) == open /\ started /\ ~sent /\ cs # Null

\* guard of the Agent -> Telco forwarding
P3_StreamSidKnown == streamSid # Null

\* ws.on("message") case "start"; hasUrl: customParameters carries elevenLabsSignedUrl
P3_Start(sid, hasUrl) ==
  /\ handler = "P3" /\ telco = "OPEN" /\ starts < MaxStart /\ MoreEvents
  /\ starts' = starts + 1
  /\ streamSid' = sid
  /\ callSid' = "CA1"
  /\ decodedCustomParameters' = TRUE
  /\ IF ~hasUrl
       THEN UNCHANGED <<socks, elevenLabsWs, twilioStartEventProcessed, initialConfigSent, agentLog>>
       ELSE LET sk == Append(socks, NewSocket)      \* setupElevenLabs creates the socket at once
                el == Len(socks) + 1
                send == P3_ConfigConditionsMet(isElevenLabsWsOpen, TRUE, initialConfigSent, "CA1")
            IN /\ socks' = sk
               /\ elevenLabsWs' = el
               /\ twilioStartEventProcessed' = TRUE
               /\ agentLog' = IF send THEN WsSend(agentLog, sk, el, "init", 0) ELSE agentLog
               /\ initialConfigSent' = IF send /\ ~SendThrows(sk, el) THEN TRUE
                                       ELSE initialConfigSent
  /\ isVoicemail' = AmdIsVoicemail(amdResults, "CA1")
  /\ amdResults' = AmdDelete(amdResults, "CA1")
  /\ UNCHANGED <<finalizeLog, statusLog, cacheVars, serviceVars, handler, phase, telco, telcoCloseCalls, pendingSetups, isElevenLabsWsOpen,
                 streamSidEstablished, firstTwilioMessageProcessed, bufferVars, telcoLog,
                 medias, audios, intrs, stops, audiosBuffered>>

\* elevenLabsWs.on("open") of socket s
P3_ElOpen(s) ==
  /\ handler = "P3" /\ s \in 1..Len(socks) /\ socks[s].rs = "CONNECTING"
  /\ LET sk == SetRs(socks, s, "OPEN")
         send == P3_ConfigConditionsMet(TRUE, twilioStartEventProcessed, initialConfigSent, callSid)
         log1 == IF send THEN WsSend(agentLog, sk, elevenLabsWs, "init", 0) ELSE agentLog
     IN /\ socks' = sk
        /\ isElevenLabsWsOpen' = TRUE
        /\ initialConfigSent' = IF send /\ ~SendThrows(sk, elevenLabsWs) THEN TRUE
                                ELSE initialConfigSent
        /\ agentLog' = WsSendAll(log1, sk, elevenLabsWs, twilioAudioBuffer)
        /\ twilioAudioBuffer' = <<>>
  /\ UNCHANGED <<callVars, cacheVars, serviceVars, handler, phase, telco, telcoCloseCalls, elevenLabsWs, pendingSetups,
                 streamSid, callSid, decodedCustomParameters, twilioStartEventProcessed,
                 streamSidEstablished, firstTwilioMessageProcessed, pendingAudioBuffer,
                 elevenLabsAudioBuffer, telcoLog, counterVars>>

\* elevenLabsWs.on("message") case "audio": forwarded, or dropped without streamSid
P3_ElAudio(s) ==
  /\ handler = "P3" /\ s \in 1..Len(socks) /\ Receiving(socks, s)
  /\ audios < MaxAudio /\ MoreEvents
  /\ audios' = audios + 1
  /\ telcoLog' = IF P3_StreamSidKnown THEN Append(telcoLog, MediaFrame(streamSid, audios + 1))
                 ELSE telcoLog
  /\ UNCHANGED <<callVars, cacheVars, serviceVars, handler, phase, telco, telcoCloseCalls, socks, elevenLabsWs, pendingSetups,
                 sessionVars, bufferVars, agentLog, starts, medias, intrs, stops, audiosBuffered>>

\* elevenLabsWs.on("message") case "interruption"
P3_ElInterruption(s) ==
  /\ handler = "P3" /\ s \in 1..Len(socks) /\ Receiving(socks, s)
  /\ intrs < MaxInterrupt /\ MoreEvents
  /\ intrs' = intrs + 1
  /\ telcoLog' = IF P3_StreamSidKnown THEN Append(telcoLog, ClearFrame(streamSid)) ELSE telcoLog
  /\ UNCHANGED <<callVars, cacheVars, serviceVars, handler, phase, telco, telcoCloseCalls, socks, elevenLabsWs, pendingSetups,
                 sessionVars, bufferVars, agentLog, starts, medias, audios, stops, audiosBuffered>>

\* elevenLabsWs.on("close")
P3_ElClose(s) ==
  /\ handler = "P3" /\ s \in 1..Len(socks) /\ socks[s].rs # "CLOSED"
  /\ socks' = SetRs(socks, s, "CLOSED")
  /\ isElevenLabsWsOpen' = FALSE
  /\ UNCHANGED <<callVars, cacheVars, serviceVars, handler, phase, telco, telcoCloseCalls, elevenLabsWs, pendingSetups,
                 streamSid, callSid, decodedCustomParameters, twilioStartEventProcessed,
                 initialConfigSent, streamSidEstablished, firstTwilioMessageProcessed,
                 bufferVars, agentLog, telcoLog, counterVars>>

\* elevenLabsWs.on("error"): logged only; ws closes the socket after the event
P3_ElError(s) ==
  /\ handler = "P3" /\ s \in 1..Len(socks) /\ socks[s].rs \in {"CONNECTING", "OPEN"}
  /\ socks' = SetRs(socks, s, "CLOSING")
  /\ UNCHANGED <<callVars, cacheVars, serviceVars, handler, phase, telco, telcoCloseCalls, elevenLabsWs, pendingSetups,
                 sessionVars, bufferVars, agentLog, telcoLog, counterVars>>

\* ws.on("message") case "media": unbounded buffer while the Agent socket is not open
P3_Media ==
  /\ handler = "P3" /\ telco = "OPEN" /\ medias < MaxMedia /\ MoreEvents
  /\ medias' = medias + 1
  /\ IF ReadyState(socks, elevenLabsWs) = "OPEN"
       THEN /\ agentLog' = WsSend(agentLog, socks, elevenLabsWs, "chunk", medias + 1)
            /\ UNCHANGED twilioAudioBuffer
       ELSE /\ twilioAudioBuffer' = Append(twilioAudioBuffer, medias + 1)
            /\ UNCHANGED agentLog
  /\ UNCHANGED <<callVars, cacheVars, serviceVars, handler, phase, telco, telcoCloseCalls, socks, elevenLabsWs, pendingSetups,
                 sessionVars, pendingAudioBuffer, elevenLabsAudioBuffer, telcoLog,
                 starts, audios, intrs, stops, audiosBuffered>>

\* ws.on("message") case "stop"
P3_Stop ==
  /\ handler = "P3" /\ telco = "OPEN" /\ stops < MaxStop /\ MoreEvents
  /\ stops' = stops + 1
  /\ socks' = IF ReadyState(socks, elevenLabsWs) = "OPEN" THEN WsClose(socks, elevenLabsWs)
              ELSE socks
  /\ finalizeLog' = StopFinalize(finalizeLog, callSid)
  /\ UNCHANGED <<amdResults, isVoicemail, statusLog, cacheVars, serviceVars, handler, phase, telco, telcoCloseCalls, elevenLabsWs, pendingSetups,
                 sessionVars, bufferVars, agentLog, telcoLog, starts, medias, audios, intrs, audiosBuffered>>

\* ws.on("close")
P3_Close ==
  /\ handler = "P3" /\ telco # "CLOSED"
  /\ telco' = "CLOSED"
  /\ socks' = IF ReadyState(socks, elevenLabsWs) = "OPEN" THEN WsClose(socks, elevenLabsWs)
              ELSE socks
  /\ isElevenLabsWsOpen' = FALSE
  /\ UNCHANGED <<callVars, cacheVars, serviceVars, handler, phase, telcoCloseCalls, elevenLabsWs, pendingSetups,
                 streamSid, callSid, decodedCustomParameters, twilioStartEventProcessed,
                 initialConfigSent, streamSidEstablished, firstTwilioMessageProcessed,
                 bufferVars, agentLog, telcoLog, counterVars>>

\* POST /call-status
P3_MachineResponses == {"machine_start", "fax"}

P3_CallStatus(CallSid, AnsweredBy) ==
  /\ handler = "P3"
  /\ CallStatusHandler(P3_MachineResponses, CallSid, AnsweredBy)

\* =========================================================================
\* "IN": src/inbound-calls.js 314-600
\* =========================================================================

\* sendAudioToTwilio / sendClearToTwilio return early without a streamSid
In_HasStreamSid(currentStreamSid) == currentStreamSid # Null

\* frames that sendAudioToTwilio / sendClearToTwilio produce for one buffered message
In_BufferedFrame(sid, bufferedMsg) ==
  IF ~In_HasStreamSid(sid) THEN <<>>
  ELSE IF bufferedMsg.is_interruption THEN <<ClearFrame(sid)>>
  ELSE IF bufferedMsg.audio_payload # 0 THEN <<MediaFrame(sid, bufferedMsg.audio_payload)>>
  ELSE <<>>

RECURSIVE In_BufferedFrames(_, _)
\* elevenLabsAudioBuffer.forEach(...)
In_BufferedFrames(sid, buf) ==
  IF buf = <<>> THEN <<>>
  ELSE In_BufferedFrame(sid, Head(buf)) \o In_BufferedFrames(sid, Tail(buf))

\* variant that discards the buffered messages instead of sending them
processBufferedElevenLabsAudio_Discarding(sid, buf) == <<>>

\* processBufferedElevenLabsAudio, as the frames it sends for stream sid
processBufferedElevenLabsAudio(sid, buf) ==
  IF sid = Null THEN <<>> ELSE In_BufferedFrames(sid, buf)

\* connection.socket.close(code), called only while the Telco socket is OPEN
In_CloseTelcoIfOpen(code) ==
  IF telco = "OPEN"
    THEN /\ telco' = "CLOSING"
         /\ telcoCloseCalls' = Append(telcoCloseCalls, code)
    ELSE UNCHANGED <<telco, telcoCloseCalls>>

\* await getSignedUrl() returned: the Agent socket is created and all handlers are registered
In_SignedUrlResolve ==
  /\ handler = "IN" /\ phase = "acquiring"
  /\ phase' = "bound"
  /\ socks' = Append(socks, NewSocket)
  /\ elevenLabsWs' = Len(socks) + 1
  /\ UNCHANGED <<callVars, cacheVars, serviceVars, handler, telco, telcoCloseCalls, pendingSetups, sessionVars, bufferVars,
                 agentLog, telcoLog, counterVars>>

\* await getSignedUrl() threw: the catch closes the Telco socket with 1011
In_SignedUrlFail ==
  /\ handler = "IN" /\ phase = "acquiring"
  /\ phase' = "failed"
  /\ IF telco # "CLOSED"
       THEN /\ telco' = "CLOSING"
            /\ telcoCloseCalls' = Append(telcoCloseCalls, 1011)
       ELSE UNCHANGED <<telco, telcoCloseCalls>>
  /\ UNCHANGED <<callVars, cacheVars, serviceVars, handler, socks, elevenLabsWs, pendingSetups, sessionVars, bufferVars,
                 agentLog, telcoLog, counterVars>>

\* a Telco frame that arrives while no "message" listener is registered is not handled
In_UnhandledMessage(ev) ==
  /\ handler = "IN" /\ phase # "bound" /\ telco = "OPEN"
  /\ ev \in {"start", "media", "stop"}
  /\ ev = "start" => starts < MaxStart
  /\ ev = "media" => medias < MaxMedia
  /\ ev = "stop" => stops < MaxStop
  /\ MoreEvents
  /\ starts' = IF ev = "start" THEN starts + 1 ELSE starts
  /\ medias' = IF ev = "media" THEN medias + 1 ELSE medias
  /\ stops' = IF ev = "stop" THEN stops + 1 ELSE stops
  /\ UNCHANGED <<callVars, cacheVars, serviceVars, handler, phase, telco, telcoCloseCalls, socks, elevenLabsWs, pendingSetups,
                 sessionVars, bufferVars, agentLog, telcoLog, audios, intrs, audiosBuffered>>

\* the Telco socket closes while no "close" listener is registered
In_UnhandledClose ==
  /\ handler = "IN" /\ phase # "bound" /\ telco # "CLOSED"
  /\ telco' = "CLOSED"
  /\ UNCHANGED <<callVars, cacheVars, serviceVars, handler, phase, telcoCloseCalls, socks, elevenLabsWs, pendingSetups,
                 sessionVars, bufferVars, agentLog, telcoLog, counterVars>>

\* elevenLabsWs.on("open")
In_ElOpen(s) ==
  /\ handler = "IN" /\ s \in 1..Len(socks) /\ socks[s].rs = "CONNECTING"
  /\ socks' = SetRs(socks, s, "OPEN")
  /\ elevenLabsAudioBuffer' = <<>>
  /\ agentLog' = WsSend(agentLog, socks', elevenLabsWs, "init", 0)
  /\ UNCHANGED <<callVars, cacheVars, serviceVars, handler, phase, telco, telcoCloseCalls, elevenLabsWs, pendingSetups,
                 sessionVars, twilioAudioBuffer, pendingAudioBuffer, telcoLog, counterVars>>

\* elevenLabsWs.on("message"), type "audio" or "audio_event"
In_ElAudioHandler(s) ==
  /\ handler = "IN" /\ s \in 1..Len(socks) /\ Receiving(socks, s)
  /\ audios' = audios + 1
  /\ audiosBuffered' = IF streamSid # Null THEN audiosBuffered ELSE audiosBuffered + 1
  /\ LET audioDataForTwilio == [audio_payload |-> audios + 1, is_interruption |-> FALSE]
     IN IF streamSid # Null
          THEN /\ telcoLog' = telcoLog \o In_BufferedFrame(streamSid, audioDataForTwilio)
                                       \o In_BufferedFrames(streamSid, elevenLabsAudioBuffer)
               /\ elevenLabsAudioBuffer' = <<>>
          ELSE /\ elevenLabsAudioBuffer' = Append(elevenLabsAudioBuffer, audioDataForTwilio)
               /\ UNCHANGED telcoLog
  /\ UNCHANGED <<callVars, cacheVars, serviceVars, handler, phase, telco, telcoCloseCalls, socks, elevenLabsWs, pendingSetups,
                 sessionVars, twilioAudioBuffer, pendingAudioBuffer, agentLog,
                 starts, medias, intrs, stops>>

In_ElAudio(s) == audios < MaxAudio /\ MoreEvents /\ In_ElAudioHandler(s)

\* elevenLabsWs.on("message"), type "interruption"
In_ElInterruption(s) ==
  /\ handler = "IN" /\ s \in 1..Len(socks) /\ Receiving(socks, s)
  /\ intrs < MaxInterrupt /\ MoreEvents
  /\ intrs' = intrs + 1
  /\ IF streamSid # Null
       THEN /\ telcoLog' = telcoLog \o In_BufferedFrame(streamSid,
                                         [audio_payload |-> 0, is_interruption |-> TRUE])
            /\ UNCHANGED elevenLabsAudioBuffer
       ELSE /\ elevenLabsAudioBuffer' = Append(elevenLabsAudioBuffer,
                                               [audio_payload |-> 0, is_interruption |-> TRUE])
            /\ UNCHANGED telcoLog
  /\ UNCHANGED <<callVars, cacheVars, serviceVars, handler, phase, telco, telcoCloseCalls, socks, elevenLabsWs, pendingSetups,
                 sessionVars, twilioAudioBuffer, pendingAudioBuffer, agentLog,
                 starts, medias, audios, stops, audiosBuffered>>

\* elevenLabsWs.on("error"): closes the Telco socket with 1011; ws closes the Agent socket after
In_ElError(s) ==
  /\ handler = "IN" /\ s \in 1..Len(socks) /\ socks[s].rs \in {"CONNECTING", "OPEN"}
  /\ socks' = SetRs(socks, s, "CLOSING")
  /\ In_CloseTelcoIfOpen(1011)
  /\ UNCHANGED <<callVars, cacheVars, serviceVars, handler, phase, elevenLabsWs, pendingSetups, sessionVars, bufferVars,
                 agentLog, telcoLog, counterVars>>

\* elevenLabsWs.on("close"): closes the Telco socket with 1000
In_ElClose(s) ==
  /\ handler = "IN" /\ s \in 1..Len(socks) /\ socks[s].rs # "CLOSED"
  /\ socks' = SetRs(socks, s, "CLOSED")
  /\ In_CloseTelcoIfOpen(1000)
  /\ UNCHANGED <<callVars, cacheVars, serviceVars, handler, phase, elevenLabsWs, pendingSetups, sessionVars, bufferVars,
                 agentLog, telcoLog, counterVars>>

\* connection.on("message") with a "connected" frame: only the first-message flag changes
In_Connected ==
  /\ handler = "IN" /\ phase = "bound" /\ telco = "OPEN"
  /\ ~firstTwilioMessageProcessed
  /\ firstTwilioMessageProcessed' = TRUE
  /\ UNCHANGED <<callVars, cacheVars, serviceVars, handler, phase, telco, telcoCloseCalls, socks, elevenLabsWs, pendingSetups,
                 streamSid, callSid, decodedCustomParameters, isElevenLabsWsOpen,
                 twilioStartEventProcessed, initialConfigSent, streamSidEstablished,
                 bufferVars, agentLog, telcoLog, counterVars>>

\* the variant of In_Start that establishes streamSid and leaves the buffered Agent
\* audio where it is
In_Start_WithoutFlush(sid) ==
  /\ handler = "IN" /\ phase = "bound" /\ telco = "OPEN" /\ starts < MaxStart /\ MoreEvents
  /\ starts' = starts + 1
  /\ firstTwilioMessageProcessed' = TRUE
  /\ streamSidEstablished' = TRUE
  /\ streamSid' = sid
  /\ callSid' = "CA1"
  /\ UNCHANGED <<telcoLog, elevenLabsAudioBuffer>>
  /\ UNCHANGED <<callVars, cacheVars, serviceVars, handler, phase, telco, telcoCloseCalls, socks, elevenLabsWs, pendingSetups,
                 decodedCustomParameters, isElevenLabsWsOpen, twilioStartEventProcessed,
                 initialConfigSent, twilioAudioBuffer, pendingAudioBuffer, agentLog,
                 medias, audios, intrs, stops, audiosBuffered>>

\* connection.on("message") with a "start" frame
In_Start(sid) ==
  /\ handler = "IN" /\ phase = "bound" /\ telco = "OPEN" /\ starts < MaxStart /\ MoreEvents
  /\ starts' = starts + 1
  /\ firstTwilioMessageProcessed' = TRUE
  /\ streamSidEstablished' = TRUE
  /\ streamSid' = sid                  \* the regular handling assigns it again on every start
  /\ callSid' = "CA1"
  /\ IF ~streamSidEstablished
       THEN /\ telcoLog' = telcoLog \o processBufferedElevenLabsAudio(sid, elevenLabsAudioBuffer)
            /\ elevenLabsAudioBuffer' = <<>>
       ELSE UNCHANGED <<telcoLog, elevenLabsAudioBuffer>>
  /\ UNCHANGED <<callVars, cacheVars, serviceVars, handler, phase, telco, telcoCloseCalls, socks, elevenLabsWs, pendingSetups,
                 decodedCustomParameters, isElevenLabsWsOpen, twilioStartEventProcessed,
                 initialConfigSent, twilioAudioBuffer, pendingAudioBuffer, agentLog,
                 medias, audios, intrs, stops, audiosBuffered>>

\* connection.on("message") with a "media" frame of stream sid
In_Media(sid) ==
  /\ handler = "IN" /\ phase = "bound" /\ telco = "OPEN" /\ medias < MaxMedia /\ MoreEvents
  /\ medias' = medias + 1
  /\ firstTwilioMessageProcessed' = TRUE
  /\ streamSidEstablished' = TRUE
  /\ IF ~streamSidEstablished
       THEN /\ streamSid' = sid
            /\ telcoLog' = telcoLog \o processBufferedElevenLabsAudio(sid, elevenLabsAudioBuffer)
            /\ elevenLabsAudioBuffer' = <<>>
       ELSE UNCHANGED <<streamSid, telcoLog, elevenLabsAudioBuffer>>
  /\ agentLog' = IF ReadyState(socks, elevenLabsWs) = "OPEN" /\ streamSid' # Null
                   THEN WsSend(agentLog, socks, elevenLabsWs, "chunk", medias + 1)
                   ELSE agentLog
  /\ UNCHANGED <<callVars, cacheVars, serviceVars, handler, phase, telco, telcoCloseCalls, socks, elevenLabsWs, pendingSetups,
                 callSid, decodedCustomParameters, isElevenLabsWsOpen,
                 twilioStartEventProcessed, initialConfigSent, twilioAudioBuffer,
                 pendingAudioBuffer, starts, audios, intrs, stops, audiosBuffered>>

\* connection.on("message") with a "stop" frame
In_Stop ==
  /\ handler = "IN" /\ phase = "bound" /\ telco = "OPEN" /\ stops < MaxStop /\ MoreEvents
  /\ stops' = stops + 1
  /\ firstTwilioMessageProcessed' = TRUE
  /\ socks' = IF elevenLabsWs # 0 THEN WsClose(socks, elevenLabsWs) ELSE socks
  /\ UNCHANGED <<callVars, cacheVars, serviceVars, handler, phase, telco, telcoCloseCalls, elevenLabsWs, pendingSetups,
                 streamSid, callSid, decodedCustomParameters, isElevenLabsWsOpen,
                 twilioStartEventProcessed, initialConfigSent, streamSidEstablished,
                 bufferVars, agentLog, telcoLog, starts, medias, audios, intrs, audiosBuffered>>

\* connection.on("close")
In_Close ==
  /\ handler = "IN" /\ phase = "bound" /\ telco # "CLOSED"
  /\ telco' = "CLOSED"
  /\ socks' = IF elevenLabsWs # 0 /\ ReadyState(socks, elevenLabsWs) # "CLOSED"
                THEN WsClose(socks, elevenLabsWs) ELSE socks
  /\ UNCHANGED <<callVars, cacheVars, serviceVars, handler, phase, telcoCloseCalls, elevenLabsWs, pendingSetups, sessionVars,
                 bufferVars, agentLog, telcoLog, counterVars>>

\* connection.on("error"); ws closes the Telco socket after the event
In_Error ==
  /\ handler = "IN" /\ phase = "bound" /\ telco = "OPEN"
  /\ telco' = "CLOSING"
  /\ socks' = IF elevenLabsWs # 0 THEN WsClose(socks, elevenLabsWs) ELSE socks
  /\ UNCHANGED <<callVars, cacheVars, serviceVars, handler, phase, telcoCloseCalls, elevenLabsWs, pendingSetups, sessionVars,
                 bufferVars, agentLog, telcoLog, counterVars>>

Next ==
  \/ \E sid \in StreamSids : Out_Start(sid)
  \/ Out_SetupResolve
  \/ Out_SetupFail
  \/ \E s \in 1..Len(socks) : Out_ElOpen(s)
  \/ \E s \in 1..Len(socks) : Out_ElAudio(s)
  \/ \E s \in 1..Len(socks) : Out_ElInterruption(s)
  \/ \E s \in 1..Len(socks) : Out_ElClose(s)
  \/ \E s \in 1..Len(socks) : Out_ElError(s)
  \/ Out_Media
  \/ Out_Stop
  \/ Out_Close
  \/ Old_SetupResolve
  \/ Old_SetupFail
  \/ \E s \in 1..Len(socks) : Old_ElOpen(s)
  \/ \E s \in 1..Len(socks) : Old_ElAudio(s)
  \/ \E s \in 1..Len(socks) : Old_ElInterruption(s)
  \/ \E s \in 1..Len(socks) : Old_ElClose(s)
  \/ \E s \in 1..Len(socks) : Old_ElError(s)
  \/ \E sid \in StreamSids : Old_Start(sid)
  \/ Old_Media
  \/ Old_Stop
  \/ Old_Close
  \/ \E sid \in StreamSids, hasUrl \in BOOLEAN : P3_Start(sid, hasUrl)
  \/ \E s \in 1..Len(socks) : P3_ElOpen(s)
  \/ \E s \in 1..Len(socks) : P3_ElAudio(s)
  \/ \E s \in 1..Len(socks) : P3_ElInterruption(s)
  \/ \E s \in 1..Len(socks) : P3_ElClose(s)
  \/ \E s \in 1..Len(socks) : P3_ElError(s)
  \/ P3_Media
  \/ P3_Stop
  \/ P3_Close
  \/ In_SignedUrlResolve
  \/ In_SignedUrlFail
  \/ \E ev \in {"start", "media", "stop"} : In_UnhandledMessage(ev)
  \/ In_UnhandledClose
  \/ \E s \in 1..Len(socks) : In_ElOpen(s)
  \/ \E s \in 1..Len(socks) : In_ElAudio(s)
  \/ \E s \in 1..Len(socks) : In_ElInterruption(s)
  \/ \E s \in 1..Len(socks) : In_ElError(s)
  \/ \E s \in 1..Len(socks) : In_ElClose(s)
  \/ In_Connected
  \/ \E sid \in StreamSids : In_Start(sid)
  \/ \E sid \in StreamSids : In_Media(sid)
  \/ In_Stop
  \/ In_Close
  \/ In_Error

Spec == Init /\ [][Next]_vars

\* The session together with the status callbacks Twilio posts for its call.
NextCall ==
  \/ Next
  \/ \E cs \in CallSids, ab \in AnsweredByValues : Out_CallStatus(cs, ab)
  \/ \E cs \in CallSids, ab \in AnsweredByValues : Old_CallStatus(cs, ab)
  \/ \E cs \in CallSids, ab \in AnsweredByValues : P3_CallStatus(cs, ab)

SpecCall == Init /\ [][NextCall]_vars

\* A session whose peer is not ready while frames keep arriving: Telco sends media
\* while no Agent socket is open (outbound handlers), the Agent sends audio before
\* Telco has sent start (inbound handler).  The number of frames is bounded by
\* MaxOverflowFrames only, so the buffers run past the cap of the current handler.
InitOverflow == Init /\ handler \in {"OUT", "OUT_OLD", "IN"}

NextOverflow ==
  \/ medias < MaxOverflowFrames /\ Out_MediaHandler
  \/ medias < MaxOverflowFrames /\ Old_MediaHandler
  \/ In_SignedUrlResolve
  \/ \E s \in 1..Len(socks) : In_ElOpen(s)
  \/ \E s \in 1..Len(socks) : audios < MaxOverflowFrames /\ In_ElAudioHandler(s)

SpecOverflow == InitOverflow /\ [][NextOverflow]_vars

\* =========================================================================
\* ElevenLabsConnectionManager: the cache of pre-fetched signed URLs
\* (src/outbound-calls.js 36-98)
\* =========================================================================
connectionVars == <<handler, phase, telco, telcoCloseCalls, socks, elevenLabsWs, pendingSetups,
                    sessionVars, bufferVars, agentLog, telcoLog, counterVars, callVars,
                    serviceVars>>

\* the clock advances by one millisecond, by just under the TTL or by the TTL
ClockSteps == {1, UrlTtlMs - 1, UrlTtlMs}

Tick(dt) ==
  /\ ticks < MaxTicks
  /\ ticks' = ticks + 1
  /\ now' = now + dt
  /\ UNCHANGED <<cachedSignedUrls, urlCacheSize, initIndex, lastPoolAdjustment, lastPrediction, adjusts,
                 replenishing, urlsFetched,
                 handedOut, connectVars, connectionVars>>

\* cachedSignedUrls.push({ url, timestamp: Date.now() }); urls are numbered as received
PushUrl(cache, n, t) == Append(cache, [url |-> n, timestamp |-> t])

\* value of initIndex once the loop condition i < this.urlCacheSize has failed
InitLoopFinished == -1

\* one iteration of the loop of initializeUrlCache: await getSignedUrl() returned a
\* url (ok) or returned nothing / threw
initializeUrlCache(ok) ==
  /\ initIndex # InitLoopFinished
  /\ initIndex' = IF initIndex + 1 < urlCacheSize THEN initIndex + 1 ELSE InitLoopFinished
  /\ IF ok THEN /\ cachedSignedUrls' = PushUrl(cachedSignedUrls, urlsFetched + 1, now)
                /\ urlsFetched' = urlsFetched + 1
           ELSE UNCHANGED <<cachedSignedUrls, urlsFetched>>
  /\ UNCHANGED <<urlCacheSize, now, ticks, lastPoolAdjustment, lastPrediction, adjusts, replenishing, handedOut,
                 connectVars, connectionVars>>

\* filter(item => item.timestamp > fiveMinutesAgo), fiveMinutesAgo = Date.now() - 5 * 60 * 1000
FreshUrls_KeepingAtTtl(cache, t) ==
  SelectSeq(cache, LAMBDA item : item.timestamp >= t - UrlTtlMs)

FreshUrls(cache, t) ==
  SelectSeq(cache, LAMBDA item : item.timestamp > t - UrlTtlMs)

\* getCachedUrl(): evicts the expired entries, hands out the first remaining one and
\* calls replenishUrlCache(), which starts a fetch if the cache is below its size;
\* it returns null iff no entry is fresh
getCachedUrl ==
  LET fresh == FreshUrls(cachedSignedUrls, now)
  IN IF Len(fresh) > 0
       THEN /\ cachedSignedUrls' = Tail(fresh)
            /\ handedOut' = Append(handedOut, [url |-> Head(fresh).url,
                                               timestamp |-> Head(fresh).timestamp,
                                               at |-> now])
            /\ replenishing' = IF Len(Tail(fresh)) < urlCacheSize
                                 THEN replenishing + 1 ELSE replenishing
       ELSE /\ cachedSignedUrls' = fresh
            /\ UNCHANGED <<handedOut, replenishing>>

\* outcome of one createConnection() call: whether getCachedUrl() returned a url, what
\* its own getSignedUrl() gave ("none" if it was not called), and whether the call
\* threw for lack of a url (if (!signedUrl) throw, or the rejection of getSignedUrl)
ConnectOutcome(cached, acquisition) ==
  [cached |-> cached, acquisition |-> acquisition,
   failed |-> ~cached /\ acquisition # "ok"]

\* createConnection(), up to its await: a cached URL is used if there is one, otherwise
\* the call fetches a URL itself
createConnection_WithoutFallback ==
  /\ Len(connectLog) + acquiring < MaxConnects
  /\ getCachedUrl
  /\ connectLog' = Append(connectLog, IF FreshUrls(cachedSignedUrls, now) # <<>>
                                        THEN ConnectOutcome(TRUE, "none")
                                        ELSE ConnectOutcome(FALSE, "none"))
  /\ UNCHANGED <<acquiring, urlCacheSize, now, ticks, initIndex, lastPoolAdjustment, lastPrediction, adjusts,
                 urlsFetched, connectionVars>>

createConnection ==
  /\ Len(connectLog) + acquiring < MaxConnects
  /\ getCachedUrl
  /\ IF FreshUrls(cachedSignedUrls, now) # <<>>
       THEN connectLog' = Append(connectLog, ConnectOutcome(TRUE, "none")) /\ UNCHANGED acquiring
       ELSE acquiring' = acquiring + 1 /\ UNCHANGED connectLog
  /\ UNCHANGED <<urlCacheSize, now, ticks, initIndex, lastPoolAdjustment, lastPrediction, adjusts,
                 urlsFetched, connectionVars>>

\* createConnection(): signedUrl = await getSignedUrl() returned a url (ok), or returned
\* nothing / threw, in which case the call fails with "Failed to get signed URL"
createConnection_Acquired(ok) ==
  /\ acquiring > 0
  /\ acquiring' = acquiring - 1
  /\ connectLog' = Append(connectLog, ConnectOutcome(FALSE, IF ok THEN "ok" ELSE "failed"))
  /\ UNCHANGED <<cachedSignedUrls, urlCacheSize, now, ticks, initIndex, lastPoolAdjustment, lastPrediction,
                 adjusts, replenishing, urlsFetched, handedOut, connectionVars>>

\* replenishUrlCache(): its await getSignedUrl() returned a url (ok) or nothing / threw
replenishUrlCache(ok) ==
  /\ replenishing > 0
  /\ replenishing' = replenishing - 1
  /\ IF ok THEN /\ cachedSignedUrls' = PushUrl(cachedSignedUrls, urlsFetched + 1, now)
                /\ urlsFetched' = urlsFetched + 1
           ELSE UNCHANGED <<cachedSignedUrls, urlsFetched>>
  /\ UNCHANGED <<urlCacheSize, now, ticks, initIndex, lastPoolAdjustment, lastPrediction, adjusts, handedOut,
                 connectVars, connectionVars>>

\* CallPatternTracker.adjustPoolIfNeeded: the target size for a predicted number of calls
Predictions == {0, 11, 21, 51}

\* the variant of TargetCacheSize whose thresholds are inclusive
TargetCacheSize_InclusiveThresholds(prediction) ==
  IF prediction >= 50 THEN 10
  ELSE IF prediction >= 20 THEN 8
  ELSE IF prediction >= 10 THEN 5
  ELSE 3

TargetCacheSize(prediction) ==
  IF prediction > 50 THEN 10
  ELSE IF prediction > 20 THEN 8
  ELSE IF prediction > 10 THEN 5
  ELSE 3

\* recordCall() -> adjustPoolIfNeeded(), at most every 10 minutes; a change of the target
\* size calls replenishUrlCache() if the cache holds fewer entries than the new target
adjustPoolIfNeeded(prediction) ==
  /\ adjusts < MaxAdjusts
  /\ now - lastPoolAdjustment >= PoolAdjustIntervalMs
  /\ TargetCacheSize(prediction) # urlCacheSize
  /\ adjusts' = adjusts + 1
  /\ urlCacheSize' = TargetCacheSize(prediction)
  /\ replenishing' = IF TargetCacheSize(prediction) > Len(cachedSignedUrls)
                       THEN replenishing + 1 ELSE replenishing
  /\ lastPoolAdjustment' = now
  /\ lastPrediction' = prediction
  /\ UNCHANGED <<cachedSignedUrls, now, ticks, initIndex, urlsFetched, handedOut, connectVars, connectionVars>>

InitCache == Init /\ handler = "OUT"

NextCache ==
  \/ \E dt \in ClockSteps : Tick(dt)
  \/ \E ok \in BOOLEAN : initializeUrlCache(ok)
  \/ createConnection
  \/ \E ok \in BOOLEAN : createConnection_Acquired(ok)
  \/ \E ok \in BOOLEAN : replenishUrlCache(ok)

SpecCache == InitCache /\ [][NextCache]_vars

\* The cache together with the call-pattern tracker, which may change the target size
\* every ten minutes; the clock is observed at that granularity.
NextPool ==
  \/ Tick(PoolAdjustIntervalMs)
  \/ \E ok \in BOOLEAN : initializeUrlCache(ok)
  \/ createConnection
  \/ \E ok \in BOOLEAN : createConnection_Acquired(ok)
  \/ \E ok \in BOOLEAN : replenishUrlCache(ok)
  \/ \E prediction \in Predictions : adjustPoolIfNeeded(prediction)

SpecPool == InitCache /\ [][NextPool]_vars

\* =========================================================================
\* Properties
\* =========================================================================

\* positions of agentLog whose frame was transmitted (the socket was OPEN at the call)
Transmitted(kind) == {i \in DOMAIN agentLog : agentLog[i].kind = kind /\ agentLog[i].rs = "OPEN"}

\* positions of agentLog at which send() was called with a frame of that kind
SendCalls(kind) == {i \in DOMAIN agentLog : agentLog[i].kind = kind}

IsChunkSent(e) == e.kind = "chunk" /\ e.rs = "OPEN"
IsMediaFrame(f) == f.event = "media"
IsAudioMsg(m) == ~m.is_interruption

\* ids of the user_audio_chunk frames transmitted to the Agent, in send order
ChunkIdsSent == [i \in DOMAIN SelectSeq(agentLog, IsChunkSent) |-> SelectSeq(agentLog, IsChunkSent)[i].id]

\* ids of the Agent audio frames sent to Telco, in send order
TelcoMediaIds == [i \in DOMAIN SelectSeq(telcoLog, IsMediaFrame) |-> SelectSeq(telcoLog, IsMediaFrame)[i].payload]

\* ids of the Agent audio frames still waiting for streamSid, in buffer order
AgentAudioWaiting ==
  pendingAudioBuffer \o
  [i \in DOMAIN SelectSeq(elevenLabsAudioBuffer, IsAudioMsg) |->
     SelectSeq(elevenLabsAudioBuffer, IsAudioMsg)[i].audio_payload]

Range(q) == {q[i] : i \in DOMAIN q}
StrictlyIncreasing(q) == \A i, j \in DOMAIN q : i < j => q[i] < q[j]
SomeAgentOpen == \E s \in DOMAIN socks : socks[s].rs = "OPEN"

\* C1: in every session, whatever the interleaving of Telco and Agent events and
\* however many start events arrive, the init frame is transmitted at most once.
C1_InitSentAtMostOnce == Cardinality(Transmitted("init")) <= 1

\* C1 witness: two start events were handled, two Agent sockets have opened, one init was sent
C1_Witness ==
  /\ starts = 2 /\ Len(socks) = 2
  /\ \A s \in DOMAIN socks : socks[s].rs = "OPEN"
  /\ Cardinality(Transmitted("init")) = 1

\* no Agent socket can open any more unless a further start event arrives
NoOpenPending ==
  /\ pendingSetups = 0 /\ phase # "acquiring"
  /\ \A s \in DOMAIN socks : socks[s].rs # "CONNECTING"

\* C2: once the Telco start event has been received and an Agent socket of the
\* session has opened (in either order), the init frame is sent, exactly once: in
\* a state where an Agent socket is open, start was received and no further
\* Agent socket is about to open, the init frame has been transmitted.
C2_InitSentOnceBothReady ==
  (starts > 0 /\ SomeAgentOpen /\ NoOpenPending) => Cardinality(Transmitted("init")) = 1

\* C3: the init frame is sent only after the Telco start event has been received.
C3_InitOnlyAfterStart == Transmitted("init") # {} => starts > 0

\* C4: in an outbound session the chunks transmitted to the Agent are the received
\* media payloads in the same order, each at most once, and (as long as the buffer
\* cannot have overflowed) every received chunk is either transmitted or still buffered.
C4_TelcoAudioReachesAgentInOrder ==
  (handler = "OUT" /\ medias <= TwilioAudioBufferCap) =>
     /\ StrictlyIncreasing(ChunkIdsSent)
     /\ Range(ChunkIdsSent) \cup Range(twilioAudioBuffer) = 1..medias

C6_NoTelcoFrameWithoutStreamSid == \A i \in DOMAIN telcoLog : telcoLog[i].streamSid # Null

\* C6 witness: Agent audio and an interruption arrived while streamSid was unknown
\* and no frame went to Telco
C6_Witness == streamSid = Null /\ audios >= 1 /\ intrs >= 1 /\ telcoLog = <<>>

\* C7: send() is called with a user_audio_chunk only on an Agent socket that is
\* OPEN at the time of the call.
C7_ChunkOnlyToOpenSocket ==
  handler \in {"OUT", "IN"} => \A i \in SendCalls("chunk") : agentLog[i].rs = "OPEN"

\* C8: in an inbound session a media frame handled while the Agent socket is not
\* open is kept in the Telco -> Agent buffer.
C8_InboundMediaBufferedBeforeOpen ==
  [][(handler = "IN" /\ phase = "bound" /\ medias' = medias + 1
        /\ ReadyState(socks, elevenLabsWs) # "OPEN")
       => medias' \in Range(twilioAudioBuffer')]_vars

\* C9: closure of either WebSocket triggers closure of the other: when the close
\* event of an Agent socket has been handled the Telco socket is closing or closed,
\* and when the close event of the Telco socket has been handled every Agent socket
\* of the session is closing or closed.
C9_CloseTriggersClose ==
  [][(handler \in {"OUT", "IN"} /\ phase = "bound") =>
       /\ (\E s \in DOMAIN socks : socks[s].rs # "CLOSED" /\ socks'[s].rs = "CLOSED")
             => telco' # "OPEN"
       /\ (telco # "CLOSED" /\ telco' = "CLOSED")
             => \A s \in DOMAIN socks' : socks'[s].rs \in {"CLOSING", "CLOSED"}]_vars

\* C10: close() is called at most once on each of the two WebSockets (never a
\* second time), and when the session handles the close of the Telco socket after a
\* start event, close has been initiated on every Agent socket (never zero times).
C10_EachSocketClosedExactlyOnce ==
  [][(handler \in {"OUT", "IN"} /\ phase = "bound") =>
       /\ \A s \in DOMAIN socks' : socks'[s].closeCalls <= 1
       /\ Len(telcoCloseCalls') <= 1
       /\ (telco # "CLOSED" /\ telco' = "CLOSED" /\ starts > 0 /\ pendingSetups = 0)
             => \A s \in DOMAIN socks' : socks'[s].rs \in {"CLOSING", "CLOSED"}]_vars

\* ---- the call: finalization and answering-machine detection ---------------
FinalizeCalls(cs) == {i \in DOMAIN finalizeLog : finalizeLog[i].callSid = cs}
Finalized(cs) == FinalizeCalls(cs) # {}
MachineValues ==
  {"machine_start", "machine_end_beep", "machine_end_silence", "machine_end_other", "fax"}

\* C11: for every call the SDK finalization update({status: "completed"}) is invoked
\* at most once, whatever the number of stop events and machine-classified status
\* callbacks received for the call.
C11_FinalizedAtMostOnce == \A cs \in CallSids : Cardinality(FinalizeCalls(cs)) <= 1

\* C12: when a session (outbound or inbound) handles the stop event after start, the
\* Agent WebSocket the session holds is closed (closing or closed once the handler
\* has run) and the call has been finalized through the SDK.
C12_StopClosesAgentAndFinalizes ==
  [][(handler \in {"OUT", "IN"} /\ phase = "bound" /\ starts > 0 /\ stops' = stops + 1) =>
       /\ elevenLabsWs # 0 => socks'[elevenLabsWs].rs \in {"CLOSING", "CLOSED"}
       /\ Finalized(callSid)']_vars

\* a step in which signed-URL acquisition fails, or the connect of an Agent socket fails
\* (its error event arrives while it is CONNECTING)
SignedUrlFailed ==
  \/ pendingSetups' = pendingSetups - 1 /\ Len(socks') = Len(socks)
  \/ phase = "acquiring" /\ phase' = "failed"
AgentConnectFailed ==
  \E s \in DOMAIN socks : /\ socks[s].rs = "CONNECTING"
                          /\ socks'[s].rs = "CLOSING"
                          /\ socks'[s].closeCalls = socks[s].closeCalls

\* C13: if signed-URL acquisition or the Agent WebSocket connect fails while the Telco
\* WebSocket is open, the session fails: the Telco WebSocket is closed with code 1011
\* by the handler of the failure.
C13_AgentUnavailableClosesTelco1011 ==
  [][(handler \in {"OUT", "IN"} /\ telco = "OPEN" /\ (SignedUrlFailed \/ AgentConnectFailed)) =>
       /\ telco' # "OPEN"
       /\ telcoCloseCalls' = Append(telcoCloseCalls, 1011)]_vars

\* C14: when the Agent's interruption frame has been handled, no Agent audio is left
\* in the Agent -> Telco buffer (what was buffered is discarded, so it cannot be sent
\* afterwards), and if the stream id is known a clear frame has been sent to Telco.
C14_InterruptionDiscardsBufferedAudio ==
  [][(handler \in {"OUT", "IN"} /\ intrs' = intrs + 1) =>
       /\ AgentAudioWaiting' = <<>>
       /\ streamSid # Null => telcoLog' = Append(telcoLog, ClearFrame(streamSid))]_vars

\* the AnsweredBy value of the status callback handled in this step, if it is one
StatusReceived(answeredBy) == statusLog' = Append(statusLog, answeredBy)

\* C17: for every status callback whose AnsweredBy is machine_start, machine_end_beep,
\* machine_end_silence, machine_end_other or fax, the /call-status handler finalizes
\* the call through the SDK, whether or not a session for the call has bound.
C17_MachineCallbackFinalizesCall ==
  [][\A ab \in MachineValues, cs \in CallSids :
       (handler \in {"OUT", "P3"} /\ StatusReceived(ab)) =>
          finalizeLog' = Append(finalizeLog, [callSid |-> cs, by |-> "status"])]_vars

\* a machine classification has been reported for the call by a status callback
MachineReported == \E i \in DOMAIN statusLog : statusLog[i] \in MachineValues

\* C18: if /call-status reported a machine classification for the call before the
\* session's start event is processed, the start handler puts the session in voicemail
\* mode (isVoicemail), which selects the voicemail first message and prompt.
C18_MachineBeforeStartGivesVoicemail ==
  [][(handler = "OUT" /\ MachineReported /\ starts' = starts + 1) => isVoicemail']_vars

\* ---- the audio buffers under backpressure ---------------------------------
\* C15: when the Telco -> Agent buffer is full and a further media chunk arrives
\* while the Agent socket is not open, the oldest buffered chunk is dropped and the
\* new chunk is kept at the end of the buffer.
C15_OverflowDropsOldest ==
  [][(handler = "OUT" /\ medias' = medias + 1
        /\ ReadyState(socks, elevenLabsWs) # "OPEN"
        /\ Len(twilioAudioBuffer) = TwilioAudioBufferCap)
       => twilioAudioBuffer' = Append(Tail(twilioAudioBuffer), medias')]_vars

\* C16: both per-session audio buffers are bounded: neither the Telco -> Agent buffer
\* nor the Agent -> Telco buffer ever holds more entries than the cap, however many
\* frames arrive while the other side is not ready.
C16_BuffersBounded ==
  /\ Len(twilioAudioBuffer) <= TwilioAudioBufferCap
  /\ Len(pendingAudioBuffer) <= TwilioAudioBufferCap
  /\ Len(elevenLabsAudioBuffer) <= TwilioAudioBufferCap

\* ---- the signed-URL cache -------------------------------------------------
Age(h) == h.at - h.timestamp
CachedUrlIds == {cachedSignedUrls[i].url : i \in DOMAIN cachedSignedUrls}
HandedOutIds == {handedOut[i].url : i \in DOMAIN handedOut}

\* C20: every signed URL handed out by getCachedUrl was acquired less than 5 minutes
\* before the hand-out; entries at or beyond the TTL are evicted and never returned.
C20_HandedOutUrlsYoungerThanTtl ==
  \A i \in DOMAIN handedOut : Age(handedOut[i]) >= 0 /\ Age(handedOut[i]) < UrlTtlMs

\* a URL one millisecond short of the TTL was handed out by a call that evicted an
\* older entry (received, never handed out, no longer cached)
C20_Witness ==
  \E i \in DOMAIN handedOut :
     /\ Age(handedOut[i]) = UrlTtlMs - 1
     /\ \E n \in 1..urlsFetched : /\ n < handedOut[i].url
                                  /\ n \notin CachedUrlIds
                                  /\ n \notin HandedOutIds

\* C21: in every reachable state the prewarm cache holds at most K entries, K being
\* the current target size, for any interleaving of the initial fill, replenishments
\* and predictor adjustments of K.
C21_CacheHoldsAtMostK == Len(cachedSignedUrls) <= urlCacheSize

\* C22: a failure to prewarm or replenish the cache never fails a call: a call that
\* gets no fresh cached URL acquires one itself, and a connection attempt fails for
\* lack of a URL only if that acquisition failed.
C22_ConnectFailsOnlyIfAcquisitionFails ==
  \A i \in DOMAIN connectLog :
     /\ ~connectLog[i].cached => connectLog[i].acquisition # "none"
     /\ connectLog[i].failed <=> (~connectLog[i].cached /\ connectLog[i].acquisition = "failed")

\* every prewarm fetch failed, the cache is empty, and a call still got its URL by
\* acquiring it itself
C22_Witness ==
  /\ initIndex = InitLoopFinished /\ urlsFetched = 0
  /\ \E i \in DOMAIN connectLog : ~connectLog[i].cached /\ ~connectLog[i].failed

\* =========================================================================
\* The handler that takes its Agent socket from the connection manager
\* (src/unnamed/part_002: getConnection 100-132, createConnection 134-183,
\* setupElevenLabs 645-852, start 866-884, stop 973-984)
\* =========================================================================
sessionOnlyVars == <<handler, phase, telco, telcoCloseCalls, socks, elevenLabsWs, pendingSetups,
                     sessionVars, bufferVars, agentLog, telcoLog, counterVars, callVars, cacheVars,
                     frameVars, initVars, calendarVars, trackerVars>>

PoolSocketIds == 1..Len(poolWs)

\* getConnection(callSid), up to its first await or its return (part_002 100-123);
\* createConnection() is entered and its promise stored in connectionPromise
getConnection(s) ==
  /\ lastActivity' = now
  /\ IF activeConnection # 0 /\ poolWs[activeConnection] = "OPEN"
     THEN /\ sessionWs' = [sessionWs EXCEPT ![s] = activeConnection]
          /\ sessionPhase' = [sessionPhase EXCEPT ![s] = "assigned"]
          /\ UNCHANGED <<activeConnection, connectionPromise, poolWs, awaiting>>
     ELSE IF connectionPromise # 0
     THEN /\ awaiting' = [awaiting EXCEPT ![s] = connectionPromise]
          /\ sessionPhase' = [sessionPhase EXCEPT ![s] = "waiting"]
          /\ UNCHANGED <<activeConnection, connectionPromise, poolWs, sessionWs>>
     ELSE /\ poolWs' = Append(poolWs, "CONNECTING")
          /\ connectionPromise' = Len(poolWs) + 1
          /\ awaiting' = [awaiting EXCEPT ![s] = Len(poolWs) + 1]
          /\ sessionPhase' = [sessionPhase EXCEPT ![s] = "creating"]
          /\ UNCHANGED <<activeConnection, sessionWs>>

\* Telco start event of session s: setupElevenLabs(callSid) is called, not awaited
Pooled_Start(s) ==
  /\ sessionPhase[s] = "idle"
  /\ ~sessionStopped[s]
  /\ getConnection(s)
  /\ UNCHANGED <<sessionStopped, forwarded, sessionOnlyVars>>

\* socket w opens: its promise resolves.  The session that created it continues at
\* part_002 125-127, the sessions that waited for it at 113; all of them continue
\* in setupElevenLabs 649-852 with the socket as their elevenLabsWs.
Pooled_Opened(w) ==
  /\ w \in PoolSocketIds
  /\ poolWs[w] = "CONNECTING"
  /\ poolWs' = [poolWs EXCEPT ![w] = "OPEN"]
  /\ IF \E s \in PoolSessions : awaiting[s] = w /\ sessionPhase[s] = "creating"
     THEN activeConnection' = w /\ connectionPromise' = 0
     ELSE UNCHANGED <<activeConnection, connectionPromise>>
  /\ sessionWs' = [s \in PoolSessions |-> IF awaiting[s] = w THEN w ELSE sessionWs[s]]
  /\ sessionPhase' = [s \in PoolSessions |-> IF awaiting[s] = w THEN "assigned" ELSE sessionPhase[s]]
  /\ awaiting' = [s \in PoolSessions |-> IF awaiting[s] = w THEN 0 ELSE awaiting[s]]
  /\ UNCHANGED <<sessionStopped, forwarded, sessionOnlyVars, lastActivity>>

\* the sessions that wait for socket w at part_002 113, in the order they continue
RECURSIVE RetryWaiters(_, _, _, _, _)
RetryWaiters(waiters, ws, promise, aw, ph) ==
  IF waiters = {} THEN [poolWs |-> ws, connectionPromise |-> promise, awaiting |-> aw, sessionPhase |-> ph]
  ELSE LET s == CHOOSE x \in waiters : \A y \in waiters : x <= y
       IN RetryWaiters(waiters \ {s}, Append(ws, "CONNECTING"), Len(ws) + 1,
                       [aw EXCEPT ![s] = Len(ws) + 1], [ph EXCEPT ![s] = "creating"])

\* socket w fails to open: its promise rejects.  Its creator clears
\* connectionPromise and rethrows (128-131), setupElevenLabs logs the error; every
\* waiter clears connectionPromise (114-117) and goes on to create a connection of
\* its own (120-122).
Pooled_OpenFailed(w) ==
  /\ w \in PoolSocketIds
  /\ poolWs[w] = "CONNECTING"
  /\ LET creators == {s \in PoolSessions : awaiting[s] = w /\ sessionPhase[s] = "creating"}
         waiters == {s \in PoolSessions : awaiting[s] = w /\ sessionPhase[s] = "waiting"}
         r == RetryWaiters(waiters, [poolWs EXCEPT ![w] = "CLOSED"],
                           IF creators # {} \/ waiters # {} THEN 0 ELSE connectionPromise,
                           [s \in PoolSessions |-> IF s \in creators THEN 0 ELSE awaiting[s]],
                           [s \in PoolSessions |-> IF s \in creators THEN "failed" ELSE sessionPhase[s]])
     IN /\ poolWs' = r.poolWs
        /\ connectionPromise' = r.connectionPromise
        /\ awaiting' = r.awaiting
        /\ sessionPhase' = r.sessionPhase
  /\ UNCHANGED <<activeConnection, sessionWs, sessionStopped, forwarded, sessionOnlyVars, lastActivity>>

\* the close event of socket w (closed by the Agent, or after close()): the manager
\* forgets the socket if it is the one it keeps (part_002 163-167)
Pooled_Closed(w) ==
  /\ w \in PoolSocketIds
  /\ poolWs[w] \in {"OPEN", "CLOSING"}
  /\ poolWs' = [poolWs EXCEPT ![w] = "CLOSED"]
  /\ activeConnection' = IF activeConnection = w THEN 0 ELSE activeConnection
  /\ UNCHANGED <<connectionPromise, sessionWs, sessionPhase, awaiting, sessionStopped, forwarded,
                 sessionOnlyVars, lastActivity>>

\* Telco stop event of session s (part_002 973-984): its elevenLabsWs is closed if
\* OPEN; releaseConnection records the time in lastActivity
Pooled_Stop(s) ==
  /\ sessionPhase[s] # "idle"
  /\ ~sessionStopped[s]
  /\ sessionStopped' = [sessionStopped EXCEPT ![s] = TRUE]
  /\ lastActivity' = now
  /\ poolWs' = IF sessionWs[s] # 0 /\ poolWs[sessionWs[s]] = "OPEN"
               THEN [poolWs EXCEPT ![sessionWs[s]] = "CLOSING"] ELSE poolWs
  /\ UNCHANGED <<activeConnection, connectionPromise, sessionWs, sessionPhase, awaiting, forwarded,
                 sessionOnlyVars>>

\* an Agent frame arrives on socket w: every session that registered its message
\* handler on the socket (part_002 700) receives it and forwards audio to its own
\* Telco socket
Pooled_AgentFrame(w) ==
  /\ w \in PoolSocketIds
  /\ poolWs[w] = "OPEN"
  /\ forwarded' = forwarded \cup {<<w, s>> : s \in {x \in PoolSessions : sessionWs[x] = w /\ ~sessionStopped[x]}}
  /\ UNCHANGED <<activeConnection, connectionPromise, poolWs, sessionWs, sessionPhase, awaiting,
                 sessionStopped, sessionOnlyVars, lastActivity>>

InitShared == Init /\ handler = "OUT"

NextShared ==
  \/ \E s \in PoolSessions : Pooled_Start(s)
  \/ \E s \in PoolSessions : Pooled_Stop(s)
  \/ \E w \in PoolSocketIds : Pooled_Opened(w)
  \/ \E w \in PoolSocketIds : Pooled_OpenFailed(w)
  \/ \E w \in PoolSocketIds : Pooled_Closed(w)
  \/ \E w \in PoolSocketIds : Pooled_AgentFrame(w)

SpecShared == InitShared /\ [][NextShared]_vars

\* C23: no Agent WebSocket is used by two sessions, and no Agent frame is forwarded
\* to the Telco socket of more than one session.
C23_OwnFreshAgentSocket ==
  /\ \A s1, s2 \in PoolSessions :
        (s1 # s2 /\ sessionWs[s1] # 0 /\ ~sessionStopped[s1] /\ ~sessionStopped[s2])
           => sessionWs[s1] # sessionWs[s2]
  /\ \A f1, f2 \in forwarded : f1[1] = f2[1] => f1[2] = f2[2]

\* =========================================================================
\* Agent frames other than audio: ping, client_tool_call; frames that are not
\* JSON (src/outbound-calls.js 892-1014, 1033-1037, 1189-1191;
\* src/inbound-calls.js 411-463, 466-489)
\* =========================================================================
\* everything the frame handlers below leave alone
frameRestVars == <<callVars, cacheVars, sharedVars, initVars, handler, phase, telco, telcoCloseCalls, socks,
                   elevenLabsWs, pendingSetups, bufferVars, telcoLog, counterVars, calendarVars, idleVars, trackerVars>>

\* event ids a ping frame can carry
EventIds == {0, 1, 2}

\* if (message.ping_event?.event_id): the test is on the value of the id
HasEventId(id) == id # 0

ToolNames == {"get_current_time", "end_call", "book_meeting"}
ToolCallIds == {101, 102}

\* handleToolExecution(tool_name, parameters) of src/outbound-calls.js 376-395:
\* TRUE when the promise resolves, FALSE when it rejects
handleToolExecution(tool_name) == tool_name \in {"get_current_time", "end_call"}

ToolEnvelope(tool_name) == IF handleToolExecution(tool_name) THEN "tool_result" ELSE "tool_error"

\* the pong is sent on whatever socket elevenLabsWs refers to when the frame arrives
SendPong(log, sk, ws, id) == IF HasEventId(id) THEN WsSend(log, sk, ws, "pong", id) ELSE log

\* elevenLabsWs.on("message") case "ping" on socket s (outbound-calls.js 951-960)
Out_ElPing(s, id) ==
  /\ handler = "OUT" /\ s \in 1..Len(socks) /\ Receiving(socks, s)
  /\ Len(pingLog) < MaxPing /\ MoreEvents
  /\ pingLog' = Append(pingLog, [sock |-> s, id |-> id, rs |-> socks[s].rs, ws |-> elevenLabsWs])
  /\ agentLog' = SendPong(agentLog, socks, elevenLabsWs, id)
  /\ UNCHANGED <<frameRestVars, sessionVars, toolLog, unparseable>>

\* elevenLabsWs.on("message") ping branch (inbound-calls.js 447-450)
In_ElPing(s, id) ==
  /\ handler = "IN" /\ s \in 1..Len(socks) /\ Receiving(socks, s)
  /\ Len(pingLog) < MaxPing /\ MoreEvents
  /\ pingLog' = Append(pingLog, [sock |-> s, id |-> id, rs |-> socks[s].rs, ws |-> elevenLabsWs])
  /\ agentLog' = SendPong(agentLog, socks, elevenLabsWs, id)
  /\ UNCHANGED <<frameRestVars, sessionVars, toolLog, unparseable>>

\* elevenLabsWs.on("message") case "client_tool_call" on socket s
\* (outbound-calls.js 974-1005).  handleToolExecution has no await, so its promise
\* is settled when the handler returns and the then/catch callback runs before any
\* other event: the envelope is sent if elevenLabsWs is OPEN at that point.
Out_ElToolCall(s, tool_name, tool_call_id) ==
  /\ handler = "OUT" /\ s \in 1..Len(socks) /\ Receiving(socks, s)
  /\ Len(toolLog) < MaxTool /\ MoreEvents
  /\ toolLog' = Append(toolLog, [sock |-> s, id |-> tool_call_id, tool |-> tool_name,
                                 rs |-> socks[s].rs, ws |-> elevenLabsWs])
  /\ agentLog' = IF ReadyState(socks, elevenLabsWs) = "OPEN"
                   THEN WsSend(agentLog, socks, elevenLabsWs, ToolEnvelope(tool_name), tool_call_id)
                   ELSE agentLog
  /\ UNCHANGED <<frameRestVars, sessionVars, pingLog, unparseable>>

\* inbound-calls.js 459-461: client_tool_call is none of the types the handler
\* tests for; the frame is logged as unhandled
In_ElToolCall(s, tool_name, tool_call_id) ==
  /\ handler = "IN" /\ s \in 1..Len(socks) /\ Receiving(socks, s)
  /\ Len(toolLog) < MaxTool /\ MoreEvents
  /\ toolLog' = Append(toolLog, [sock |-> s, id |-> tool_call_id, tool |-> tool_name,
                                 rs |-> socks[s].rs, ws |-> elevenLabsWs])
  /\ UNCHANGED <<frameRestVars, sessionVars, agentLog, pingLog, unparseable>>

\* elevenLabsWs.on("message") with data that JSON.parse rejects: the catch logs
\* (outbound-calls.js 893-894, 1012-1014)
Out_ElUnparseable(s) ==
  /\ handler = "OUT" /\ s \in 1..Len(socks) /\ Receiving(socks, s)
  /\ Len(unparseable) < MaxUnparseable /\ MoreEvents
  /\ unparseable' = Append(unparseable, [peer |-> "Agent", medias |-> medias])
  /\ UNCHANGED <<frameRestVars, sessionVars, agentLog, pingLog, toolLog>>

\* the mutant of Out_Unparseable: the catch closes the Telco socket with 1011, as
\* the catch around the handler setup does
Out_Unparseable_ClosingTelco ==
  /\ handler = "OUT" /\ telco = "OPEN"
  /\ Len(unparseable) < MaxUnparseable /\ MoreEvents
  /\ unparseable' = Append(unparseable, [peer |-> "Telco", medias |-> medias])
  /\ telco' = "CLOSING"
  /\ telcoCloseCalls' = Append(telcoCloseCalls, 1011)
  /\ UNCHANGED <<callVars, cacheVars, sharedVars, initVars, calendarVars, idleVars, trackerVars, handler, phase, socks, elevenLabsWs, pendingSetups,
                 bufferVars, telcoLog, counterVars, sessionVars, agentLog, pingLog, toolLog>>

\* ws.on("message") with a message that JSON.parse rejects: the outer catch logs
\* (outbound-calls.js 1033-1035, 1189-1191)
Out_Unparseable ==
  /\ handler = "OUT" /\ telco = "OPEN"
  /\ Len(unparseable) < MaxUnparseable /\ MoreEvents
  /\ unparseable' = Append(unparseable, [peer |-> "Telco", medias |-> medias])
  /\ UNCHANGED <<frameRestVars, sessionVars, agentLog, pingLog, toolLog>>

\* inbound-calls.js 413-415, 462-464
In_ElUnparseable(s) ==
  /\ handler = "IN" /\ s \in 1..Len(socks) /\ Receiving(socks, s)
  /\ Len(unparseable) < MaxUnparseable /\ MoreEvents
  /\ unparseable' = Append(unparseable, [peer |-> "Agent", medias |-> medias])
  /\ UNCHANGED <<frameRestVars, sessionVars, agentLog, pingLog, toolLog>>

\* connection.on("message") with a message that JSON.parse rejects
\* (inbound-calls.js 467-489): the first-message flag is set before the parse
In_Unparseable ==
  /\ handler = "IN" /\ phase = "bound" /\ telco = "OPEN"
  /\ Len(unparseable) < MaxUnparseable /\ MoreEvents
  /\ unparseable' = Append(unparseable, [peer |-> "Telco", medias |-> medias])
  /\ firstTwilioMessageProcessed' = TRUE
  /\ UNCHANGED <<frameRestVars, streamSid, callSid, decodedCustomParameters, isElevenLabsWsOpen,
                 twilioStartEventProcessed, initialConfigSent, streamSidEstablished,
                 agentLog, pingLog, toolLog>>

\* One session of the current outbound or inbound handler, receiving every kind of
\* frame.
InitFrames == Init /\ handler \in {"OUT", "IN"}

NextOutIn ==
  \/ \E sid \in StreamSids : Out_Start(sid)
  \/ Out_SetupResolve
  \/ Out_SetupFail
  \/ \E s \in 1..Len(socks) : Out_ElOpen(s)
  \/ \E s \in 1..Len(socks) : Out_ElAudio(s)
  \/ \E s \in 1..Len(socks) : Out_ElInterruption(s)
  \/ \E s \in 1..Len(socks) : Out_ElClose(s)
  \/ \E s \in 1..Len(socks) : Out_ElError(s)
  \/ Out_Media
  \/ Out_Stop
  \/ Out_Close
  \/ In_SignedUrlResolve
  \/ In_SignedUrlFail
  \/ \E ev \in {"start", "media", "stop"} : In_UnhandledMessage(ev)
  \/ In_UnhandledClose
  \/ \E s \in 1..Len(socks) : In_ElOpen(s)
  \/ \E s \in 1..Len(socks) : In_ElAudio(s)
  \/ \E s \in 1..Len(socks) : In_ElInterruption(s)
  \/ \E s \in 1..Len(socks) : In_ElError(s)
  \/ \E s \in 1..Len(socks) : In_ElClose(s)
  \/ In_Connected
  \/ \E sid \in StreamSids : In_Start(sid)
  \/ \E sid \in StreamSids : In_Media(sid)
  \/ In_Stop
  \/ In_Close
  \/ In_Error

\* the session and the pings of the Agent
NextPing ==
  \/ NextOutIn
  \/ \E s \in 1..Len(socks), id \in EventIds : Out_ElPing(s, id)
  \/ \E s \in 1..Len(socks), id \in EventIds : In_ElPing(s, id)

SpecPing == InitFrames /\ [][NextPing]_vars

\* the session and the tool calls of the Agent
NextTool ==
  \/ NextOutIn
  \/ \E s \in 1..Len(socks), t \in ToolNames, id \in ToolCallIds : Out_ElToolCall(s, t, id)
  \/ \E s \in 1..Len(socks), t \in ToolNames, id \in ToolCallIds : In_ElToolCall(s, t, id)

SpecTool == InitFrames /\ [][NextTool]_vars

\* the session and frames that are not JSON
NextUnparseable ==
  \/ NextOutIn
  \/ \E s \in 1..Len(socks) : Out_ElUnparseable(s)
  \/ Out_Unparseable
  \/ \E s \in 1..Len(socks) : In_ElUnparseable(s)
  \/ In_Unparseable

SpecUnparseable == InitFrames /\ [][NextUnparseable]_vars

\* ---- C24, C25: tool calls -----------------------------------------------
\* client_tool_call frames with id that socket s delivered while OPEN
ToolCallsOn(s, id) ==
  {i \in DOMAIN toolLog : toolLog[i].sock = s /\ toolLog[i].id = id /\ toolLog[i].rs = "OPEN"}

\* client_tool_result envelopes of the given kind with id transmitted on socket s
EnvelopesOn(s, id, kinds) ==
  {i \in DOMAIN agentLog : /\ agentLog[i].kind \in kinds
                           /\ agentLog[i].sock = s
                           /\ agentLog[i].id = id
                           /\ agentLog[i].rs = "OPEN"}

FailedToolCallsOn(s, id) == {i \in ToolCallsOn(s, id) : ~handleToolExecution(toolLog[i].tool)}

\* C24: for every client_tool_call frame received from the Agent exactly one
\* client_tool_result envelope with the same tool_call_id is sent back on the Agent
\* WebSocket, with is_error false when the tool succeeded and true when it failed.
C24_OneResultPerToolCall ==
  \A s \in 1..Len(socks), id \in ToolCallIds :
     /\ Cardinality(EnvelopesOn(s, id, {"tool_result", "tool_error"})) = Cardinality(ToolCallsOn(s, id))
     /\ Cardinality(EnvelopesOn(s, id, {"tool_error"})) = Cardinality(FailedToolCallsOn(s, id))

\* a step in which an OPEN Agent socket delivers a client_tool_call whose tool fails
FailedToolCallStep ==
  /\ Len(toolLog') = Len(toolLog) + 1
  /\ toolLog'[Len(toolLog')].rs = "OPEN"
  /\ ~handleToolExecution(toolLog'[Len(toolLog')].tool)

\* C25: a tool call that fails yields an error envelope (is_error true) on the Agent
\* WebSocket and leaves the session otherwise unchanged: neither WebSocket is closed
\* and the session's routing state is as before.
C25_FailedToolCallYieldsErrorOnly ==
  [][FailedToolCallStep =>
       /\ agentLog' = Append(agentLog, [sock |-> toolLog'[Len(toolLog')].sock, kind |-> "tool_error",
                                        id |-> toolLog'[Len(toolLog')].id, rs |-> "OPEN"])
       /\ UNCHANGED <<socks, telco, telcoCloseCalls, elevenLabsWs, sessionVars, bufferVars, telcoLog>>]_vars

\* ---- C26: pings ----------------------------------------------------------
\* ping frames with event id that socket s delivered while OPEN
PingsOn(s, id) ==
  {i \in DOMAIN pingLog : pingLog[i].sock = s /\ pingLog[i].id = id /\ pingLog[i].rs = "OPEN"}

\* pong frames with event id transmitted on socket s
PongsOn(s, id) ==
  {i \in DOMAIN agentLog : /\ agentLog[i].kind = "pong"
                           /\ agentLog[i].sock = s
                           /\ agentLog[i].id = id
                           /\ agentLog[i].rs = "OPEN"}

\* C26: for every ping frame of the Agent that carries an event id, whatever its
\* value, the session replies on that Agent WebSocket with exactly one pong frame
\* carrying the same event_id.
C26_OnePongPerPing ==
  \A s \in 1..Len(socks), id \in EventIds :
     Cardinality(PongsOn(s, id)) = Cardinality(PingsOn(s, id))

\* ---- C27: frames that are not JSON ---------------------------------------
\* a step in which a frame that is not JSON is received
UnparseableStep == Len(unparseable') = Len(unparseable) + 1

\* C27: a frame that is not JSON, on either WebSocket, is dropped: stream id, call
\* id, the buffers and the init-sent flag keep their values, nothing is sent to
\* either peer and neither WebSocket is closed.  (The inbound handler's flag
\* firstTwilioMessageProcessed, which only selects a log line, is not session state
\* in this sense.)
C27_UnparseableFrameDropped ==
  [][UnparseableStep =>
       UNCHANGED <<streamSid, callSid, streamSidEstablished, initialConfigSent, bufferVars,
                   socks, elevenLabsWs, telco, telcoCloseCalls, agentLog, telcoLog>>]_vars

\* a frame that was not JSON arrived on an open socket, and a media frame Telco sent
\* after it went out to the Agent
C27_Witness ==
  \E g \in DOMAIN unparseable, i \in DOMAIN agentLog :
     /\ agentLog[i].kind = "chunk"
     /\ agentLog[i].rs = "OPEN"
     /\ agentLog[i].id > unparseable[g].medias

\* ---- C28: failure of the init send ---------------------------------------
\* a step in which the handler calls send() with the init frame
InitSendStep ==
  \E i \in (Len(agentLog) + 1)..Len(agentLog') : agentLog'[i].kind = "init"

\* ... and send() throws
InitSendFailedStep ==
  \E i \in (Len(agentLog) + 1)..Len(agentLog') :
     agentLog'[i].kind = "init" /\ agentLog'[i].rs \in {"NONE", "CONNECTING"}

\* a step in which an Agent socket opens while Telco has started, the Telco socket
\* is open and no init frame has been sent yet
ReadyTransitionStep ==
  /\ \E s \in 1..Len(socks) : socks[s].rs = "CONNECTING" /\ socks'[s].rs = "OPEN"
  /\ telco = "OPEN"
  /\ starts >= 1 /\ callSid # Null
  /\ ~initialConfigSent

\* C28: if sending the init frame fails, init_sent stays false, and the init frame
\* is sent again at the next ready-transition while both sides are healthy.
C28_FailedInitIsRetried ==
  [][/\ InitSendFailedStep => ~initialConfigSent'
     /\ ReadyTransitionStep => InitSendStep]_vars

\* an init send failed, and at a later ready-transition the frame went out on an
\* open socket
C28_Witness ==
  \E i, j \in DOMAIN agentLog :
     /\ i < j
     /\ agentLog[i].kind = "init" /\ agentLog[i].rs = "CONNECTING"
     /\ agentLog[j].kind = "init" /\ agentLog[j].rs = "OPEN"
     /\ initialConfigSent

\* ---- C29: the stream id ---------------------------------------------------
\* C29: the stream id of a session is set by the first Telco start event and never
\* changes afterwards, whatever streamSid later start events carry.
C29_StreamIdImmutable ==
  [][/\ (streamSid = Null /\ streamSid' # Null) => starts' = 1
     /\ streamSid # Null => streamSid' = streamSid]_vars

\* =========================================================================
\* The data of the init frame (src/outbound-calls.js 783-784, 845-873,
\* 1046-1072): two concurrent sessions of the outbound handler, each with its
\* own handler-scope variables
\* =========================================================================
\* a field that the start event does not carry
Absent == ""

\* msg.start.customParameters of a start event
CustomParameterSets ==
  { [name |-> Absent, number |-> Absent, airtableRecordId |-> Absent],
    [name |-> "Ann", number |-> "+61400000001", airtableRecordId |-> "rec1"],
    [name |-> "Bob", number |-> "+61400000002", airtableRecordId |-> Absent] }

\* JavaScript a || b
OrElse(a, b) == IF a \in {Absent, Null} THEN b ELSE a

\* start branch: decodedCustomParameters = { name: ..., number: ..., airtableRecordId: ... }
DecodeCustomParameters(customParams) ==
  [name |-> OrElse(customParams.name, "Valued Customer"),
   number |-> OrElse(customParams.number, "Unknown"),
   airtableRecordId |-> OrElse(customParams.airtableRecordId, Null)]

\* open handler: dynamic_variables of initialConfig
DynamicVariables(decoded) ==
  [CUSTOMER_NAME |-> OrElse(decoded.name, "Valued Customer"),
   PHONE_NUMBER |-> OrElse(decoded.number, "Unknown"),
   AIRTABLE_RECORD_ID |-> OrElse(decoded.airtableRecordId, "")]

initRestVars == <<handler, phase, telco, telcoCloseCalls, socks, elevenLabsWs, pendingSetups,
                  sessionVars, bufferVars, agentLog, telcoLog, counterVars, callVars, cacheVars,
                  sharedVars, frameVars, calendarVars, idleVars, trackerVars>>

\* the mutant of Call_Start: decodedCustomParameters is one variable of the module,
\* shared by all sessions
Call_Start_SharedParameters(c, customParams) ==
  /\ Len(startLog[c]) < MaxCallStarts
  /\ startLog' = [startLog EXCEPT ![c] = Append(@, customParams)]
  /\ sessionParameters' = [s \in CallSessions |-> <<DecodeCustomParameters(customParams)>>]
  /\ sessionConnecting' = [sessionConnecting EXCEPT ![c] = @ + 1]
  /\ UNCHANGED <<sessionConfigSent, initFrames, initRestVars>>

\* ws.on("message") case "start" of session c: the parameters are decoded into the
\* session's own variable and setupElevenLabs creates a socket
Call_Start(c, customParams) ==
  /\ Len(startLog[c]) < MaxCallStarts
  /\ startLog' = [startLog EXCEPT ![c] = Append(@, customParams)]
  /\ sessionParameters' = [sessionParameters EXCEPT ![c] = <<DecodeCustomParameters(customParams)>>]
  /\ sessionConnecting' = [sessionConnecting EXCEPT ![c] = @ + 1]
  /\ UNCHANGED <<sessionConfigSent, initFrames, initRestVars>>

\* elevenLabsWs.on("open") of a socket of session c; sent: send() did not throw
Call_ElOpen(c, sent) ==
  /\ sessionConnecting[c] > 0
  /\ sessionConnecting' = [sessionConnecting EXCEPT ![c] = @ - 1]
  /\ IF ~sessionConfigSent[c] /\ sessionParameters[c] # <<>> /\ sent
       THEN /\ initFrames' = [initFrames EXCEPT ![c] = Append(@, DynamicVariables(sessionParameters[c][1]))]
            /\ sessionConfigSent' = [sessionConfigSent EXCEPT ![c] = TRUE]
       ELSE UNCHANGED <<initFrames, sessionConfigSent>>
  /\ UNCHANGED <<sessionParameters, startLog, initRestVars>>

\* the socket of session c fails to open, or getSignedUrl() rejects
Call_ElError(c) ==
  /\ sessionConnecting[c] > 0
  /\ sessionConnecting' = [sessionConnecting EXCEPT ![c] = @ - 1]
  /\ UNCHANGED <<sessionParameters, sessionConfigSent, startLog, initFrames, initRestVars>>

InitInitFrame == Init /\ handler = "OUT" /\ phase = "bound"

NextInitFrame ==
  \/ \E c \in CallSessions, p \in CustomParameterSets : Call_Start(c, p)
  \/ \E c \in CallSessions, sent \in BOOLEAN : Call_ElOpen(c, sent)
  \/ \E c \in CallSessions : Call_ElError(c)

SpecInitFrame == InitInitFrame /\ [][NextInitFrame]_vars

\* C30: the init frame a session sends carries, as CUSTOMER_NAME, PHONE_NUMBER and
\* AIRTABLE_RECORD_ID, the name, number and record id of the customParameters of a
\* start event of that same session, with the default where a field is absent.
C30_InitFrameCarriesOwnParameters ==
  \A c \in CallSessions : \A i \in DOMAIN initFrames[c] :
     \E k \in DOMAIN startLog[c] :
        LET p == startLog[c][k]
            f == initFrames[c][i]
        IN /\ f.CUSTOMER_NAME = IF p.name = Absent THEN "Valued Customer" ELSE p.name
           /\ f.PHONE_NUMBER = IF p.number = Absent THEN "Unknown" ELSE p.number
           /\ f.AIRTABLE_RECORD_ID = IF p.airtableRecordId = Absent THEN "" ELSE p.airtableRecordId

\* both sessions have sent their init frame, one with the values of its start
\* event, the other with a default, and the frames differ
C30_Witness ==
  /\ \A c \in CallSessions : initFrames[c] # <<>>
  /\ initFrames["A"][1].AIRTABLE_RECORD_ID = "rec1"
  /\ initFrames["B"][1].CUSTOMER_NAME = "Bob"
  /\ initFrames["B"][1].AIRTABLE_RECORD_ID = ""

\* =========================================================================
\* The calendar tools: handleToolExecution of src/outbound-calls.js 1880-2010,
\* called by the Agent message handler of the earlier outbound handler
\* (1607-1640), next to the simple handleToolExecution of 376-395 that the
\* current handler calls (974-1005)
\* =========================================================================
MaxToolRuns == 1

\* a parameter the LLM left out
NoParam == ""

\* parameters of a client_tool_call, as the LLM may fill them
ToolParameterSets ==
  { [eventTypeId |-> NoParam, start |-> "2025-06-02",  end |-> NoParam,      timeZone |-> NoParam],
    [eventTypeId |-> "1234",  start |-> "tomorrow",    end |-> NoParam,      timeZone |-> NoParam],
    [eventTypeId |-> "1234",  start |-> "2025-06-02",  end |-> "next week",  timeZone |-> "Brisbane"],
    [eventTypeId |-> "1234",  start |-> "2025-06-02",  end |-> "2025-06-09", timeZone |-> "Europe/Paris"] }

CalendarToolNames == {"book_meeting", "get_available_slots", "end_call", "end_voicemail_call"}

\* /^\d{4}-\d{2}-\d{2}$/.test(x), on the strings of ToolParameterSets
IsIsoDate(x) == x \in {"2025-06-02", "2025-06-09"}

\* /^[a-zA-Z_]+\/[a-zA-Z_]+$/.test(x), on the strings of ToolParameterSets
IsTimeZone(x) == x \in {"Europe/Paris"}

\* calComParams of get_available_slots (outbound-calls.js 1916-1957)
calComParams(parameters) ==
  [eventTypeId |-> parameters.eventTypeId,
   start       |-> parameters.start,
   end         |-> IF parameters.end # NoParam /\ IsIsoDate(parameters.end)
                     THEN parameters.end ELSE parameters.start,
   timeZone    |-> IF parameters.timeZone # NoParam /\ IsTimeZone(parameters.timeZone)
                     THEN parameters.timeZone ELSE "Australia/Brisbane"]

\* the variant of CalendarTool that takes eventTypeId as optional
CalendarTool_OptionalEventType(toolName, parameters, hasKey) ==
  IF ~hasKey THEN [state |-> "rejected", request |-> <<>>]
  ELSE IF toolName = "book_meeting"
    THEN [state |-> "fetching",
          request |-> <<[method |-> "POST", url |-> "bookings", body |-> parameters]>>]
  ELSE IF toolName = "get_available_slots"
    THEN IF ~(parameters.start # NoParam /\ IsIsoDate(parameters.start))
           THEN [state |-> "rejected", request |-> <<>>]
         ELSE [state |-> "fetching",
               request |-> <<[method |-> "GET", url |-> "slots", body |-> calComParams(parameters)]>>]
  ELSE IF toolName = "end_call"
    THEN [state |-> "resolved", request |-> <<>>]
  ELSE [state |-> "rejected", request |-> <<>>]

\* handleToolExecution(toolName, parameters) up to its first await, or to its
\* return or throw if it has none (outbound-calls.js 1880-1978); hasKey is
\* whether process.env.CAL_COM_API_KEY is set
CalendarTool(toolName, parameters, hasKey) ==
  IF ~hasKey THEN [state |-> "rejected", request |-> <<>>]
  ELSE IF toolName = "book_meeting"
    THEN [state |-> "fetching",
          request |-> <<[method |-> "POST", url |-> "bookings", body |-> parameters]>>]
  ELSE IF toolName = "get_available_slots"
    THEN IF parameters.eventTypeId = NoParam
           THEN [state |-> "rejected", request |-> <<>>]
         ELSE IF ~(parameters.start # NoParam /\ IsIsoDate(parameters.start))
           THEN [state |-> "rejected", request |-> <<>>]
         ELSE [state |-> "fetching",
               request |-> <<[method |-> "GET", url |-> "slots", body |-> calComParams(parameters)]>>]
  ELSE IF toolName = "end_call"
    THEN [state |-> "resolved", request |-> <<>>]
  ELSE [state |-> "rejected", request |-> <<>>]


\* the client_tool_result a settled promise leads to (outbound-calls.js 1615-1639):
\* .then builds is_error false, .catch builds is_error true; either is sent only
\* if elevenLabsWs is OPEN when the callback runs
SettledEnvelope(log, state, tool_call_id) ==
  IF ReadyState(socks, elevenLabsWs) = "OPEN"
    THEN WsSend(log, socks, elevenLabsWs,
                IF state = "resolved" THEN "tool_result" ELSE "tool_error", tool_call_id)
    ELSE log

calendarRestVars == <<callVars, cacheVars, sharedVars, frameVars, initVars, handler, phase, telco,
                      telcoCloseCalls, socks, elevenLabsWs, pendingSetups, sessionVars, bufferVars,
                      telcoLog, counterVars, idleVars, trackerVars>>

\* elevenLabsWs.on("message") case "client_tool_call" on socket s of the earlier
\* handler (outbound-calls.js 1607-1640): handleToolExecution runs to its first
\* await; a promise settled by then has its callback run before any other event
Old_ElToolCall(s, tool_name, tool_call_id, parameters, hasKey) ==
  /\ handler = "OUT_OLD" /\ s \in 1..Len(socks) /\ Receiving(socks, s)
  /\ Len(toolRuns) < MaxToolRuns /\ MoreEvents
  /\ LET run == CalendarTool(tool_name, parameters, hasKey)
     IN  /\ toolRuns' = Append(toolRuns, [sock |-> s, id |-> tool_call_id, tool |-> tool_name,
                                          parameters |-> parameters, key |-> hasKey,
                                          rs |-> socks[s].rs, ws |-> elevenLabsWs,
                                          state |-> run.state])
         /\ calRequests' = IF run.request = <<>> THEN calRequests
                           ELSE Append(calRequests, [run |-> Len(toolRuns) + 1] @@ run.request[1])
         /\ agentLog' = IF run.state = "fetching" THEN agentLog
                        ELSE SettledEnvelope(agentLog, run.state, tool_call_id)
  /\ UNCHANGED calendarRestVars

\* how the request to the calendar backend ends (outbound-calls.js 1980-2009):
\* a 2xx response with a JSON body resolves; any other response, a body that is
\* not JSON, a network error and the 10 s timeout reject
FetchOutcomes == {"ok", "status", "not_json", "timeout"}

Old_ToolFetchSettled(r, outcome) ==
  /\ handler = "OUT_OLD" /\ r \in 1..Len(toolRuns) /\ toolRuns[r].state = "fetching"
  /\ LET state == IF outcome = "ok" THEN "resolved" ELSE "rejected"
     IN  /\ toolRuns' = [toolRuns EXCEPT ![r].state = state]
         /\ agentLog' = SettledEnvelope(agentLog, state, toolRuns[r].id)
  /\ UNCHANGED <<calendarRestVars, calRequests>>

\* tool_call_id of the next client_tool_call: the Agent numbers its calls
NextToolCallId == 101 + Len(toolLog) + Len(toolRuns)

InitCalendar == Init /\ handler = "OUT_OLD"

\* the life of the two sockets in the earlier outbound handler, without audio,
\* and the tool calls of the Agent
NextCalendar ==
  \/ Old_SetupResolve
  \/ Old_SetupFail
  \/ \E s \in 1..Len(socks) : Old_ElOpen(s)
  \/ \E s \in 1..Len(socks) : Old_ElClose(s)
  \/ \E s \in 1..Len(socks) : Old_ElError(s)
  \/ \E sid \in StreamSids : Old_Start(sid)
  \/ Old_Stop
  \/ Old_Close
  \/ \E s \in 1..Len(socks), t \in CalendarToolNames, p \in ToolParameterSets, k \in BOOLEAN :
       Old_ElToolCall(s, t, NextToolCallId, p, k)
  \/ \E r \in 1..Len(toolRuns), o \in FetchOutcomes : Old_ToolFetchSettled(r, o)

SpecCalendar == InitCalendar /\ [][NextCalendar]_vars

\* ---- C31 ---------------------------------------------------------------
\* envelopes of a kind sent for tool call id on an Agent socket
CalendarEnvelopes(kind, id) ==
  {i \in 1..Len(agentLog) : agentLog[i].kind = kind /\ agentLog[i].id = id}

MissingEventType(run) ==
  run.tool = "get_available_slots" /\ run.parameters.eventTypeId = NoParam

\* C31: a get_available_slots call whose parameters lack eventTypeId fails: its
\* promise is rejected, no request to the calendar backend is made for it, no
\* non-error envelope is sent for it, and the error envelope (is_error true) is
\* sent on the Agent socket that delivered the call while that socket is open.
C31_MissingEventTypeFails ==
  \A r \in 1..Len(toolRuns) :
    MissingEventType(toolRuns[r]) =>
      /\ toolRuns[r].state = "rejected"
      /\ \A q \in 1..Len(calRequests) : calRequests[q].run # r
      /\ CalendarEnvelopes("tool_result", toolRuns[r].id) = {}
      /\ toolRuns[r].rs = "OPEN" =>
           \E i \in CalendarEnvelopes("tool_error", toolRuns[r].id) :
             agentLog[i].sock = toolRuns[r].sock /\ agentLog[i].rs = "OPEN"

\* the API key is set, the start date is valid, only eventTypeId is missing: the
\* error envelope has been sent and the calendar backend has seen no request
C31_Witness ==
  \E r \in 1..Len(toolRuns) :
    /\ MissingEventType(toolRuns[r]) /\ toolRuns[r].key
    /\ IsIsoDate(toolRuns[r].parameters.start)
    /\ CalendarEnvelopes("tool_error", toolRuns[r].id) # {}
    /\ calRequests = <<>>

\* ---- C32 ---------------------------------------------------------------
\* C32: an end_voicemail_call tool call delivered by an open Agent socket is
\* acknowledged: a client_tool_result with is_error false and its tool_call_id is
\* sent, and no error envelope is (the close of the two sockets that the claim
\* places after the acknowledgement presupposes it).
C32_EndVoicemailCallAcknowledged ==
  \A r \in 1..Len(toolRuns) :
    (toolRuns[r].tool = "end_voicemail_call" /\ toolRuns[r].rs = "OPEN") =>
      /\ CalendarEnvelopes("tool_result", toolRuns[r].id) # {}
      /\ CalendarEnvelopes("tool_error", toolRuns[r].id) = {}

\* ---- C33 ---------------------------------------------------------------
\* frames of a kind that were transmitted on Agent socket s, by position in agentLog
TransmittedOn(s, kind) ==
  {i \in 1..Len(agentLog) :
     agentLog[i].sock = s /\ agentLog[i].kind = kind /\ agentLog[i].rs = "OPEN"}

\* C33: on every Agent socket, every user_audio_chunk the session transmits, live
\* or flushed from the Telco-to-Agent buffer, comes after an init frame
\* transmitted on that socket.
C33_InitFrameFirst ==
  \A s \in 1..Len(socks) :
    \A i \in TransmittedOn(s, "chunk") : \E j \in TransmittedOn(s, "init") : j < i

\* ---- C34 ---------------------------------------------------------------
\* C34: whenever stream_id is known, the Agent-to-Telco pending buffer
\* (pendingAudioBuffer of the outbound handlers, elevenLabsAudioBuffer of the
\* inbound handler) is empty.
C34_NoPendingAudioOnceStreamKnown ==
  streamSid # Null => (pendingAudioBuffer = <<>> /\ elevenLabsAudioBuffer = <<>>)

\* Agent audio was buffered before any Telco frame named the stream; the stream is
\* known now, the buffer has been drained and its frames have gone to Telco
C34_Witness ==
  /\ handler = "IN" /\ streamSid # Null /\ audiosBuffered > 0
  /\ elevenLabsAudioBuffer = <<>>
  /\ \E i \in 1..Len(telcoLog) : telcoLog[i].event = "media"

\* ---- C35 ---------------------------------------------------------------
\* C35: once the Telco socket of the session has closed, close has been initiated
\* on every Agent socket the session created (none is CONNECTING or OPEN).
C35_AgentSocketsClosedWithTelco ==
  telco = "CLOSED" => \A s \in 1..Len(socks) : socks[s].rs \in {"CLOSING", "CLOSED"}

\* ---- C36 ---------------------------------------------------------------
\* C36: in an inbound session, once a start frame has arrived on the Telco socket,
\* whether before or after the signed URL was obtained, the session has handled
\* it: its stream_id is recorded.
C36_InboundStartNotLost ==
  (handler = "IN" /\ starts > 0) => (streamSid # Null /\ streamSidEstablished)

\* ---- C37 ---------------------------------------------------------------
\* connection attempts of the manager that are in flight: sockets createConnection()
\* made whose promise is neither resolved nor rejected
AttemptsInFlight == {w \in PoolSocketIds : poolWs[w] = "CONNECTING"}

\* C37: in the connection manager at most one connection attempt is in flight at
\* any time, and a connection handed to a caller of getConnection is the one
\* recorded as activeConnection when it is handed over.
C37_SingleAttemptInFlight ==
  [][ /\ Cardinality({w \in 1..Len(poolWs') : poolWs'[w] = "CONNECTING"}) <= 1
      /\ \A s \in PoolSessions :
           sessionWs'[s] # sessionWs[s] => sessionWs'[s] = activeConnection' ]_vars

\* =========================================================================
\* The idle cleanup of the connection manager (src/unnamed/part_002 and
\* src/outbound-calls.js 36-50, 186-201)
\* =========================================================================
MaxCleanupTicks == 4

\* this.maxIdleTime
MaxIdleTimeMs == 30000

\* setInterval(() => this.cleanupIdleConnection(), 10000)
CleanupIntervalMs == 10000

\* the interval timer of the manager fires: cleanupIdleConnection() closes the
\* connection the manager keeps if it is OPEN and the last getConnection or
\* releaseConnection is more than maxIdleTime ago
Pooled_CleanupTimer ==
  /\ ticks < MaxCleanupTicks
  /\ ticks' = ticks + 1
  /\ now' = now + CleanupIntervalMs
  /\ IF /\ activeConnection # 0
        /\ poolWs[activeConnection] = "OPEN"
        /\ now' - lastActivity > MaxIdleTimeMs
       THEN /\ poolWs' = [poolWs EXCEPT ![activeConnection] = "CLOSING"]
            /\ activeConnection' = 0
       ELSE UNCHANGED <<poolWs, activeConnection>>
  /\ UNCHANGED <<connectionPromise, sessionWs, sessionPhase, awaiting, sessionStopped, forwarded,
                 lastActivity, cachedSignedUrls, urlCacheSize, initIndex, lastPoolAdjustment, lastPrediction,
                 adjusts, replenishing, urlsFetched, handedOut, connectVars,
                 handler, phase, telco, telcoCloseCalls, socks, elevenLabsWs, pendingSetups,
                 sessionVars, bufferVars, agentLog, telcoLog, counterVars, callVars,
                 frameVars, initVars, calendarVars, trackerVars>>

\* the sessions of the pooled handler and the manager's timer
NextIdle ==
  \/ NextShared
  \/ Pooled_CleanupTimer

SpecIdle == InitShared /\ [][NextIdle]_vars

\* ---- C38 ---------------------------------------------------------------
\* sessions that obtained socket w and are still in their call
InCallOn(w) == {s \in PoolSessions : sessionWs[s] = w /\ ~sessionStopped[s]}

\* the idle cleanup closes the connection the manager keeps
IdleCleanupCloses ==
  /\ now' # now
  /\ activeConnection # 0 /\ activeConnection' = 0
  /\ poolWs[activeConnection] = "OPEN" /\ poolWs'[activeConnection] = "CLOSING"

\* C38: the idle cleanup never closes the active Agent connection while a session
\* that obtained it has not yet received its stop event.
C38_IdleCleanupSparesOngoingCalls ==
  [][IdleCleanupCloses => InCallOn(activeConnection) = {}]_vars

\* =========================================================================
\* The step table of the predictor (src/outbound-calls.js 440-462), applied to
\* predictions on both sides of every threshold
\* =========================================================================
BoundaryPredictions == {0, 10, 11, 20, 21, 50, 51}

NextAdjust ==
  \/ Tick(PoolAdjustIntervalMs)
  \/ \E ok \in BOOLEAN : initializeUrlCache(ok)
  \/ \E ok \in BOOLEAN : replenishUrlCache(ok)
  \/ \E prediction \in BoundaryPredictions : adjustPoolIfNeeded(prediction)

SpecAdjust == InitCache /\ [][NextAdjust]_vars

\* ---- C39 ---------------------------------------------------------------
\* the step table as the specification states it
StepTable(prediction) ==
  IF prediction <= 10 THEN 3
  ELSE IF prediction <= 20 THEN 5
  ELSE IF prediction <= 50 THEN 8
  ELSE 10

\* C39: when the predictor has adjusted the URL-cache target size, the target is
\* the step-table value of the prediction it acted on (3 up to 10, 5 up to 20,
\* 8 up to 50, 10 above); the target size is one of 3, 5, 8, 10 in every state.
C39_TargetFollowsStepTable ==
  /\ urlCacheSize \in {3, 5, 8, 10}
  /\ adjusts > 0 => urlCacheSize = StepTable(lastPrediction)

\* the predictor has adjusted the target on a prediction that lies on a threshold
C39_Witness ==
  /\ adjusts > 0 /\ lastPrediction \in {10, 20, 50}
  /\ urlCacheSize = StepTable(lastPrediction) /\ urlCacheSize # UrlCacheSize

\* =========================================================================
\* The call-pattern tracker (src/outbound-calls.js 397-472): recordCall() is
\* called for every /outbound-call request (557)
\* =========================================================================
MaxCalls == 3

HourMs == 3600000
DayMs == 24 * HourMs

\* Date.getHours() of a time; the process starts at midnight, local time
HourOf(t) == (t \div HourMs) % 24

\* the clock advances by an hour, by 21 hours or by a day
TrackerSteps == {HourMs, 21 * HourMs, DayMs}

\* this.callHistory.filter(callTime => callTime > oneDayAgo)
RECURSIVE KeepLastDay(_, _)
KeepLastDay(history, oneDayAgo) ==
  IF history = <<>> THEN <<>>
  ELSE IF Head(history) > oneDayAgo
    THEN <<Head(history)>> \o KeepLastDay(Tail(history), oneDayAgo)
    ELSE KeepLastDay(Tail(history), oneDayAgo)

\* this.hourlyPatterns.get(hour) || 0
PatternCount(patterns, hour) == IF hour \in DOMAIN patterns THEN patterns[hour] ELSE 0

\* updateHourlyPatterns(): the Map is cleared and every call of the history is
\* counted under its hour of day
RECURSIVE updateHourlyPatterns(_, _)
updateHourlyPatterns(history, patterns) ==
  IF history = <<>> THEN patterns
  ELSE LET hour == HourOf(Head(history))
       IN updateHourlyPatterns(Tail(history),
            [h \in DOMAIN patterns \cup {hour} |->
               IF h = hour THEN PatternCount(patterns, hour) + 1 ELSE patterns[h]])

\* the buckets getNext2HoursPrediction() adds up: for (let i = 0; i <= 2; i++)
PredictionHours(currentHour) == {(currentHour + i) % 24 : i \in 0..2}

RECURSIVE SumCounts(_, _)
SumCounts(patterns, hours) ==
  IF hours = {} THEN 0
  ELSE LET hour == CHOOSE h \in hours : TRUE
       IN PatternCount(patterns, hour) + SumCounts(patterns, hours \ {hour})

\* getNext2HoursPrediction() on a Map and a time
getNext2HoursPrediction(patterns, t) == SumCounts(patterns, PredictionHours(HourOf(t)))

\* recordCall(): push, filter, updateHourlyPatterns(), adjustPoolIfNeeded()
recordCall ==
  /\ Len(callHistory) < MaxCalls
  /\ LET history == KeepLastDay(Append(callHistory, now), now - DayMs)
         patterns == updateHourlyPatterns(history, <<>>)
         prediction == getNext2HoursPrediction(patterns, now)
     IN  /\ callHistory' = history
         /\ hourlyPatterns' = patterns
         /\ IF /\ now - lastPoolAdjustment >= PoolAdjustIntervalMs
               /\ TargetCacheSize(prediction) # urlCacheSize
              THEN /\ urlCacheSize' = TargetCacheSize(prediction)
                   /\ replenishing' = IF TargetCacheSize(prediction) > Len(cachedSignedUrls)
                                        THEN replenishing + 1 ELSE replenishing
                   /\ lastPoolAdjustment' = now
                   /\ lastPrediction' = prediction
                   /\ adjusts' = adjusts + 1
              ELSE UNCHANGED <<urlCacheSize, replenishing, lastPoolAdjustment, lastPrediction,
                               adjusts>>
  /\ UNCHANGED <<cachedSignedUrls, now, ticks, initIndex, urlsFetched, handedOut, connectVars,
                 handler, phase, telco, telcoCloseCalls, socks, elevenLabsWs, pendingSetups,
                 sessionVars, bufferVars, agentLog, telcoLog, counterVars, callVars,
                 sharedVars, frameVars, initVars, calendarVars, idleVars>>

NextTracker ==
  \/ \E dt \in TrackerSteps : Tick(dt)
  \/ recordCall

SpecTracker == InitCache /\ [][NextTracker]_vars

\* ---- C40 ---------------------------------------------------------------
\* calls of the last 24 hours, by position in callHistory
CallsOfLastDay == {i \in DOMAIN callHistory : callHistory[i] > now - DayMs}

\* the hour-of-day buckets of the two hours that follow the current one
NextTwoHours == {(HourOf(now) + i) % 24 : i \in 1..2}

\* C40: the forecast of the predictor is the number of calls of the last 24 hours
\* whose hour of day is one of the next 2 hours; calls of any other hour of day,
\* and calls older than 24 hours, do not count.
C40_ForecastSumsNextTwoHours ==
  getNext2HoursPrediction(hourlyPatterns, now)
    = Cardinality({i \in CallsOfLastDay : HourOf(callHistory[i]) \in NextTwoHours})
====
